---- MODULE Spec2Model ----
(***************************************************************************)
(* Verification model of the Jito-Shredstream sniper:                      *)
(*   - the reserve ledger kept by TransactionProcessor (processor/mod.rs), *)
(*   - the snipe decision and snipe tasks of AutoTrader (auto_trader.rs),  *)
(*   - the delayed-sell store of RedisClient (redis.rs) and its poller,    *)
(*   - the BlockhashCache (blockhash_cache.rs),                            *)
(*   - the instruction decoder parse_instruction_data (instruction/mod.rs),*)
(*   - the trade executor pump_buy / pump_sell (transaction/mod.rs),       *)
(*   - the startup sequence of main (main.rs, config/mod.rs).              *)
(* u64 values are kept at their full width as four 16-bit limbs, most      *)
(* significant first, so that saturation at 2^64-1 is the real one.        *)
(***************************************************************************)
EXTENDS Integers, Sequences, FiniteSets, TLC

(***************************************************************************)
(* u64 arithmetic                                                          *)
(***************************************************************************)
Base == 2^16

Limb == 0..(Base - 1)

U64Zero == <<0, 0, 0, 0>>

U64Max == <<Base - 1, Base - 1, Base - 1, Base - 1>>

IsU64(x) == /\ DOMAIN x = 1..4
            /\ \A i \in 1..4 : x[i] \in Limb

\* a <= b on u64
U64Leq(a, b) ==
    \/ a = b
    \/ \E i \in 1..4 : /\ a[i] < b[i]
                       /\ \A j \in 1..(i - 1) : a[j] = b[j]

U64Lt(a, b) == U64Leq(a, b) /\ a # b

\* the 65-bit sum of two u64: [val, carry]
U64AddCarry(a, b) ==
    LET s4 == a[4] + b[4]
        s3 == a[3] + b[3] + (s4 \div Base)
        s2 == a[2] + b[2] + (s3 \div Base)
        s1 == a[1] + b[1] + (s2 \div Base)
    IN  [val   |-> <<s1 % Base, s2 % Base, s3 % Base, s4 % Base>>,
         carry |-> s1 \div Base]

\* a - b modulo 2^64: [val, borrow]
U64SubBorrow(a, b) ==
    LET d4 == a[4] - b[4]
        w4 == IF d4 < 0 THEN 1 ELSE 0
        d3 == a[3] - b[3] - w4
        w3 == IF d3 < 0 THEN 1 ELSE 0
        d2 == a[2] - b[2] - w3
        w2 == IF d2 < 0 THEN 1 ELSE 0
        d1 == a[1] - b[1] - w2
        w1 == IF d1 < 0 THEN 1 ELSE 0
    IN  [val    |-> <<d1 + w1 * Base, d2 + w2 * Base, d3 + w3 * Base, d4 + w4 * Base>>,
         borrow |-> w1]

\* a mutant of saturating_add: the sum wraps modulo 2^64
wrapping_add(a, b) == U64AddCarry(a, b).val

\* u64::saturating_add
saturating_add(a, b) ==
    IF U64AddCarry(a, b).carry = 1 THEN U64Max ELSE U64AddCarry(a, b).val

\* u64::saturating_sub
saturating_sub(a, b) ==
    IF U64SubBorrow(a, b).borrow = 1 THEN U64Zero ELSE U64SubBorrow(a, b).val

\* a * k + c for a small k and c (k, c < 2^15), modulo 2^64
U64MulAddSmall(a, k, c) ==
    LET p4 == a[4] * k + c
        p3 == a[3] * k + (p4 \div Base)
        p2 == a[2] * k + (p3 \div Base)
        p1 == a[1] * k + (p2 \div Base)
    IN  <<p1 % Base, p2 % Base, p3 % Base, p4 % Base>>

\* the u64 written as groups of three decimal digits: <<30, 0, 0, 0>> is
\* 30_000_000_000
RECURSIVE U64Dec(_)
U64Dec(groups) ==
    IF groups = <<>> THEN U64Zero
    ELSE U64MulAddSmall(U64Dec(SubSeq(groups, 1, Len(groups) - 1)),
                        1000, groups[Len(groups)])

\* the element of a one-element set (used to compute a value once and name it)
Only(S) == CHOOSE x \in S : TRUE

\* a / 10 and a % 10
U64DivMod10(a) ==
    LET n1 == a[1]
        n2 == (n1 % 10) * Base + a[2]
        n3 == (n2 % 10) * Base + a[3]
        n4 == (n3 % 10) * Base + a[4]
    IN  [quot |-> <<n1 \div 10, n2 \div 10, n3 \div 10, n4 \div 10>>,
         rem  |-> n4 % 10]

\* u64::to_string: the decimal digits, most significant first, no leading zero
RECURSIVE to_string(_)
to_string(a) ==
    Only({ IF qr.quot = U64Zero
           THEN <<qr.rem>>
           ELSE Append(to_string(qr.quot), qr.rem) : qr \in {U64DivMod10(a)} })

\* a * 10 + d does not fit in 64 bits
U64MulAdd10Overflows(a, d) ==
    LET p4 == a[4] * 10 + d
        p3 == a[3] * 10 + (p4 \div Base)
        p2 == a[2] * 10 + (p3 \div Base)
        p1 == a[1] * 10 + (p2 \div Base)
    IN  p1 \div Base # 0

\* str::parse::<u64> of a string of decimal digits: None on an empty string
\* and on overflow
RECURSIVE parse_u64(_)
parse_u64(digits) ==
    IF digits = <<>> THEN [some |-> FALSE]
    ELSE IF Len(digits) = 1 THEN [some |-> TRUE, value |-> U64MulAddSmall(U64Zero, 10, digits[1])]
    ELSE Only({ IF ~head.some \/ U64MulAdd10Overflows(head.value, digits[Len(digits)])
                THEN [some |-> FALSE]
                ELSE [some |-> TRUE,
                      value |-> U64MulAddSmall(head.value, 10, digits[Len(digits)])] :
                head \in {parse_u64(SubSeq(digits, 1, Len(digits) - 1))} })

(***************************************************************************)
(* Bounds of the model                                                     *)
(***************************************************************************)
\* instructions the scan decodes in one run
MaxInstructions == 3

\* snipe tasks launched in one run
MaxTasks == 2

\* the clock runs from 0 to MaxTime ticks
MaxTime == 4

\* BlockhashCache.max_age, in ticks of the clock
MaxAge == 2

\* network operations (RPC, Redis) that fail in one run
MaxFaults == 1

\* AutoTrader.sell_delay_ms, in ticks of the clock
SellDelay == 2

(***************************************************************************)
(* The reserve ledger and the scan (processor/mod.rs)                      *)
(***************************************************************************)
\* mint addresses (account_keys[1] of a transaction)
Mints == {"MintA", "MintB"}

Versions == {"V0", "Legacy"}

\* slots of the entries handed to process_entries
Slots == {7}

InitialVirtualSolReserves == U64Dec(<<30, 0, 0, 0>>)

InitialVirtualTokenReserves == U64Dec(<<1, 73, 0, 0, 0, 0>>)

\* token amounts of the observed buys: 1_000_000, the whole initial reserve,
\* one more than the initial reserve, u64::MAX
BuyTokenAmounts ==
    { U64Dec(<<1, 0, 0>>), InitialVirtualTokenReserves,
      U64Dec(<<1, 73, 0, 0, 0, 1>>), U64Max }

\* sol amounts (max_sol_cost) of the observed buys: 2_000_000_000, u64::MAX
BuySolAmounts == { U64Dec(<<2, 0, 0, 0>>), U64Max }

\* what parse_instruction_data returns for the instructions of the stream
CreateEvents == { [type |-> "CreateEvent"] }

BuyEvents ==
    { [type |-> "Buy", amount |-> a, max_sol_cost |-> s] :
        a \in BuyTokenAmounts, s \in BuySolAmounts }

\* `x as f64 / ... ` divided by `y as f64 / ...`: the class of the f64 quotient
\* of two non-negative finite values, with the operands it was computed from
F64Quotient(x, y) ==
    [class |-> IF y # U64Zero
               THEN (IF x # U64Zero THEN "positive" ELSE "zero")
               ELSE (IF x # U64Zero THEN "infinite" ELSE "nan"),
     num   |-> x,
     den   |-> y]

\* 0.000000033 = (33 / 1e9) / (1_000_000 / 1e6)
DefaultTokenPrice ==
    [class |-> "positive", num |-> U64Dec(<<33>>), den |-> U64Dec(<<1, 0, 0>>)]

NoMessage == [open |-> FALSE]

NoInstruction == [op |-> "none"]

\* parse_instruction_data has not been called
NoParse == [kind |-> "none"]

\* no call of pump_buy or pump_sell is followed
NoExec == [pc |-> "none"]

\* main is not followed
NoStartup == [pc |-> "none"]

VARIABLES
    token_reserves,   \* TransactionProcessor.token_reserves: mint -> TokenReserves
    auto_trader,      \* TransactionProcessor.auto_trader is Some
    message,          \* the message the scan is in: version, mint, slot
    tasks,            \* the snipe tasks launched by tokio::spawn, in launch order
    decoded,          \* number of instructions decoded so far
    last,             \* the instruction handled last, with the ledger before it
    data,             \* the instruction data handed to parse_instruction_data
    parsed,           \* what parse_instruction_data returned for it
    exec,             \* the call of pump_buy or pump_sell that is followed
    startup,          \* main: its position, the environment, what it has started
    now,              \* the clock (SystemTime::now, Instant::now), in ticks
    cached_blockhash, \* BlockhashCache.cached_blockhash: None or (hash, timestamp)
    cache_lock,       \* the holder of the cached_blockhash mutex
    calls,            \* per caller, its call of get_latest_blockhash
    faults,           \* number of network operations that have failed
    trader,           \* AutoTrader: min_sol_price, max_sol_price, buy_amount, sell_delay_ms
    trader_lock,      \* the holder of the Arc<Mutex<AutoTrader>>
    mints_to_sell,    \* Redis sorted set "mints_to_sell": mint -> score (sell time)
    mint_amounts,     \* Redis hash "mint_amounts": mint -> decimal string
    poller,           \* the sell task of AutoTrader::start: its position and locals
    sched,            \* per mint, the schedule that succeeded last and is not claimed yet
    owed              \* mints scheduled with no pump_sell call since

processor_vars == <<token_reserves, auto_trader, message, decoded, last, data,
                    parsed, exec, startup>>

ledger_vars == <<token_reserves, auto_trader, message, tasks, decoded, last,
                 data, parsed, exec, startup>>

cache_vars == <<cached_blockhash, cache_lock, calls>>

store_vars == <<mints_to_sell, mint_amounts, sched, owed>>

trader_vars == <<trader, trader_lock, mints_to_sell, mint_amounts, poller, sched,
                 owed>>

vars == <<token_reserves, auto_trader, message, tasks, decoded, last, data,
          parsed, exec, startup, now,
          cached_blockhash, cache_lock, calls, faults, trader, trader_lock,
          mints_to_sell, mint_amounts, poller, sched, owed>>

\* the concurrent units of work: the snipe tasks and the sell poller
TaskId(i) == <<"task", i>>

PollerId == <<"poller", 0>>

NoProc == <<"none", 0>>

Procs == {PollerId} \cup {TaskId(i) : i \in 1..MaxTasks}

(***************************************************************************)
(* BlockhashCache (utils/blockhash_cache.rs)                               *)
(***************************************************************************)
NoBlockhash == [some |-> FALSE]

\* a caller that is not in get_latest_blockhash and has not called it yet
NoCall == [st |-> "idle"]

\* the blockhash the RPC node returns at a given time
LatestBlockhash(time) == [at |-> time]

\* a mutant of CacheIsFresh: an anchor whose age equals max_age is still used
CacheIsFreshInclusive(cache, time) ==
    /\ cache.some
    /\ time - cache.timestamp <= MaxAge

\* `if let Some((hash, timestamp)) = &*cache { if timestamp.elapsed() < self.max_age`
CacheIsFresh(cache, time) ==
    /\ cache.some
    /\ time - cache.timestamp < MaxAge

\* the clock advances
tick ==
    /\ now < MaxTime
    /\ now' = now + 1
    /\ UNCHANGED <<ledger_vars, cache_vars, faults, trader_vars>>

\* a mutant of cache_check: the guard is dropped after the check, so the
\* fetch runs without the lock
cache_check_unlocked(p) ==
    /\ calls[p].st = "waiting"
    /\ cache_lock = NoProc
    /\ IF CacheIsFresh(cached_blockhash, now)
       THEN calls' = [calls EXCEPT ![p] =
                        [st |-> "returned", ok |-> TRUE, hit |-> TRUE,
                         fetches |-> 0, result |-> cached_blockhash.hash,
                         seen |-> cached_blockhash, checked_at |-> now,
                         stored |-> cached_blockhash]]
       ELSE calls' = [calls EXCEPT ![p] =
                        [st |-> "fetching", seen |-> cached_blockhash,
                         checked_at |-> now]]
    /\ UNCHANGED <<cached_blockhash, cache_lock, now, ledger_vars, faults,
                   trader_vars>>

\* get_latest_blockhash, from the lock to the check: a fresh anchor is
\* returned and the lock released; otherwise the caller keeps the lock and
\* starts the RPC fetch
cache_check(p) ==
    /\ calls[p].st = "waiting"
    /\ cache_lock = NoProc
    /\ IF CacheIsFresh(cached_blockhash, now)
       THEN /\ calls' = [calls EXCEPT ![p] =
                           [st |-> "returned", ok |-> TRUE, hit |-> TRUE,
                            fetches |-> 0, result |-> cached_blockhash.hash,
                            seen |-> cached_blockhash, checked_at |-> now,
                            stored |-> cached_blockhash]]
            /\ cache_lock' = cache_lock
       ELSE /\ calls' = [calls EXCEPT ![p] =
                           [st |-> "fetching", seen |-> cached_blockhash,
                            checked_at |-> now]]
            /\ cache_lock' = p
    /\ UNCHANGED <<cached_blockhash, now, ledger_vars, faults, trader_vars>>

\* the RPC fetch succeeds: the cache is replaced and the lock released
cache_fetch_ok(p) ==
    /\ calls[p].st = "fetching"
    /\ cache_lock = p
    /\ cached_blockhash' = [some |-> TRUE, hash |-> LatestBlockhash(now),
                            timestamp |-> now]
    /\ calls' = [calls EXCEPT ![p] =
                   [st |-> "returned", ok |-> TRUE, hit |-> FALSE, fetches |-> 1,
                    result |-> LatestBlockhash(now), seen |-> calls[p].seen,
                    checked_at |-> calls[p].checked_at,
                    stored |-> cached_blockhash']]
    /\ cache_lock' = NoProc
    /\ UNCHANGED <<now, ledger_vars, faults, trader_vars>>

\* a mutant of cache_fetch_err: the failed fetch empties the cache
cache_fetch_err_clearing(p) ==
    /\ calls[p].st = "fetching"
    /\ cache_lock = p
    /\ faults < MaxFaults
    /\ faults' = faults + 1
    /\ cached_blockhash' = NoBlockhash
    /\ calls' = [calls EXCEPT ![p] =
                   [st |-> "returned", ok |-> FALSE, hit |-> FALSE, fetches |-> 1,
                    result |-> NoBlockhash, seen |-> calls[p].seen,
                    checked_at |-> calls[p].checked_at,
                    stored |-> cached_blockhash']]
    /\ cache_lock' = NoProc
    /\ UNCHANGED <<now, ledger_vars, trader_vars>>

\* the RPC fetch fails: `?` returns the error, the guard is dropped
cache_fetch_err(p) ==
    /\ calls[p].st = "fetching"
    /\ cache_lock = p
    /\ faults < MaxFaults
    /\ faults' = faults + 1
    /\ calls' = [calls EXCEPT ![p] =
                   [st |-> "returned", ok |-> FALSE, hit |-> FALSE, fetches |-> 1,
                    result |-> NoBlockhash, seen |-> calls[p].seen,
                    checked_at |-> calls[p].checked_at,
                    stored |-> cached_blockhash]]
    /\ cache_lock' = NoProc
    /\ UNCHANGED <<cached_blockhash, now, ledger_vars, trader_vars>>

\* a caller (snipe_token, the sell poller) calls get_latest_blockhash
cache_call(p) ==
    /\ calls[p].st \in {"idle", "returned"}
    /\ calls' = [calls EXCEPT ![p] = [st |-> "waiting"]]
    /\ UNCHANGED <<cached_blockhash, cache_lock, now, ledger_vars, faults,
                   trader_vars>>

CacheNext ==
    \/ tick
    \/ \E p \in Procs : cache_call(p)
    \/ \E p \in Procs : cache_check(p)
    \/ \E p \in Procs : cache_fetch_ok(p)
    \/ \E p \in Procs : cache_fetch_err(p)

(***************************************************************************)
(* The reserve ledger: prices and updates                                  *)
(***************************************************************************)
\* a mutant of token_price_v0: a token with no reserve state has price 0.0
token_price_v0_or_zero(mint) ==
    IF mint \in DOMAIN token_reserves
    THEN F64Quotient(token_reserves[mint].virtual_sol_reserves,
                     token_reserves[mint].virtual_token_reserves)
    ELSE F64Quotient(U64Zero, U64Dec(<<1, 0, 0>>))

\* the price read at processor/mod.rs:124-130
token_price_v0(mint) ==
    IF mint \in DOMAIN token_reserves
    THEN F64Quotient(token_reserves[mint].virtual_sol_reserves,
                     token_reserves[mint].virtual_token_reserves)
    ELSE DefaultTokenPrice

\* the price read at processor/mod.rs:276-282
token_price_legacy(mint) ==
    IF mint \in DOMAIN token_reserves
    THEN F64Quotient(token_reserves[mint].virtual_sol_reserves,
                     token_reserves[mint].virtual_token_reserves)
    ELSE DefaultTokenPrice

\* a snipe task as tokio::spawn creates it: its copied inputs and its position
NewTask(mint, sol_amount, token_price, slot) ==
    [mint |-> mint, sol_amount |-> sol_amount, token_price |-> token_price,
     slot |-> slot, pc |-> "spawned"]

\* a mutant of SpawnSnipe: the task carries no snapshot but the default price
SpawnSnipeDefaultPrice(mint, sol_amount, token_price, slot) ==
    IF auto_trader
    THEN Append(tasks, NewTask(mint, sol_amount, DefaultTokenPrice, slot))
    ELSE tasks

\* tokio::spawn of the snipe task with its copied inputs
SpawnSnipe(mint, sol_amount, token_price, slot) ==
    IF auto_trader
    THEN Append(tasks, NewTask(mint, sol_amount, token_price, slot))
    ELSE tasks

\* a mutant of InitialReserves: the sol side starts empty
InitialReservesNoSol ==
    [virtual_sol_reserves   |-> U64Zero,
     virtual_token_reserves |-> InitialVirtualTokenReserves]

InitialReserves ==
    [virtual_sol_reserves   |-> InitialVirtualSolReserves,
     virtual_token_reserves |-> InitialVirtualTokenReserves]

\* a mutant of UpdateReserves: the subtraction is done by saturating_sub alone,
\* without the guard around it
UpdateReservesUnguarded(reserves, token_amount, sol_amount) ==
    [virtual_sol_reserves   |->
        saturating_add(reserves.virtual_sol_reserves, sol_amount),
     virtual_token_reserves |->
        saturating_sub(reserves.virtual_token_reserves, token_amount)]

\* a mutant of UpdateReserves: the sol side is subtracted and the token side added
UpdateReservesSwapped(reserves, token_amount, sol_amount) ==
    [virtual_sol_reserves   |->
        saturating_sub(reserves.virtual_sol_reserves, sol_amount),
     virtual_token_reserves |->
        saturating_add(reserves.virtual_token_reserves, token_amount)]

\* a mutant of UpdateReserves: the sol side is added with a plain wrapping `+`
UpdateReservesWrapping(reserves, token_amount, sol_amount) ==
    [virtual_sol_reserves   |->
        wrapping_add(reserves.virtual_sol_reserves, sol_amount),
     virtual_token_reserves |->
        IF U64Leq(token_amount, reserves.virtual_token_reserves)
        THEN saturating_sub(reserves.virtual_token_reserves, token_amount)
        ELSE reserves.virtual_token_reserves]

\* the update of one TokenReserves by a buy
UpdateReserves(reserves, token_amount, sol_amount) ==
    [virtual_sol_reserves   |->
        saturating_add(reserves.virtual_sol_reserves, sol_amount),
     virtual_token_reserves |->
        IF U64Leq(token_amount, reserves.virtual_token_reserves)
        THEN saturating_sub(reserves.virtual_token_reserves, token_amount)
        ELSE reserves.virtual_token_reserves]

\* a mutant of on_create: a create of a tracked token puts its sol side
\* back to the initial value
on_create_reset_sol(mint) ==
    /\ token_reserves' =
          IF mint \notin DOMAIN token_reserves
          THEN token_reserves @@ (mint :> InitialReserves)
          ELSE [token_reserves EXCEPT
                  ![mint].virtual_sol_reserves = InitialVirtualSolReserves]
    /\ tasks' = tasks

\* a mutant of on_create: every create seeds the entry again
on_create_reseed(mint) ==
    /\ token_reserves' = (mint :> InitialReserves) @@ token_reserves
    /\ tasks' = tasks

\* the "CreateEvent" arm
on_create(mint) ==
    /\ token_reserves' =
          IF mint \notin DOMAIN token_reserves
          THEN token_reserves @@ (mint :> InitialReserves)
          ELSE token_reserves
    /\ tasks' = tasks

\* a mutant of on_buy: the ledger is updated first and the task is launched
\* with the price of the updated reserves
on_buy_update_first(mint, token_amount, sol_amount, token_price, slot) ==
    /\ token_reserves' =
          IF mint \in DOMAIN token_reserves
          THEN [token_reserves EXCEPT
                  ![mint] = UpdateReserves(@, token_amount, sol_amount)]
          ELSE token_reserves
    /\ tasks' = SpawnSnipe(mint, sol_amount,
                           IF mint \in DOMAIN token_reserves
                           THEN F64Quotient(
                                  token_reserves'[mint].virtual_sol_reserves,
                                  token_reserves'[mint].virtual_token_reserves)
                           ELSE token_price,
                           slot)

\* a mutant of on_buy: a buy of an untracked token creates its entry
on_buy_upsert(mint, token_amount, sol_amount, token_price, slot) ==
    /\ tasks' = SpawnSnipe(mint, sol_amount, token_price, slot)
    /\ token_reserves' =
          IF mint \in DOMAIN token_reserves
          THEN [token_reserves EXCEPT
                  ![mint] = UpdateReserves(@, token_amount, sol_amount)]
          ELSE token_reserves @@
               (mint :> UpdateReserves(InitialReserves, token_amount, sol_amount))

\* a mutant of on_buy: the scan takes the AutoTrader lock to launch the task
on_buy_locking(mint, token_amount, sol_amount, token_price, slot) ==
    /\ trader_lock = NoProc
    /\ tasks' = SpawnSnipe(mint, sol_amount, token_price, slot)
    /\ token_reserves' =
          IF mint \in DOMAIN token_reserves
          THEN [token_reserves EXCEPT
                  ![mint] = UpdateReserves(@, token_amount, sol_amount)]
          ELSE token_reserves

\* the "Buy" arm: the price is read, the task is launched, the ledger is updated
on_buy(mint, token_amount, sol_amount, token_price, slot) ==
    /\ tasks' = SpawnSnipe(mint, sol_amount, token_price, slot)
    /\ token_reserves' =
          IF mint \in DOMAIN token_reserves
          THEN [token_reserves EXCEPT
                  ![mint] = UpdateReserves(@, token_amount, sol_amount)]
          ELSE token_reserves

Handled(event, mint) ==
    [op |-> event.type, mint |-> mint,
     token_amount |-> IF event.type = "Buy" THEN event.amount ELSE U64Zero,
     sol_amount   |-> IF event.type = "Buy" THEN event.max_sol_cost ELSE U64Zero,
     before |-> token_reserves,
     tasks_before |-> Len(tasks),
     lock_before |-> trader_lock]

\* TransactionProcessor::set_auto_trader
set_auto_trader ==
    /\ ~auto_trader
    /\ message = NoMessage
    /\ auto_trader' = TRUE
    /\ UNCHANGED <<token_reserves, message, tasks, decoded, last>>
    /\ UNCHANGED <<data, parsed, now, cache_vars, faults, trader_vars, exec, startup>>

\* process_entries reaches a transaction whose account list holds the target:
\* the mint is account_keys[1]
begin_message ==
    \E version \in Versions, mint \in Mints, slot \in Slots :
        /\ decoded < MaxInstructions
        /\ message' = [open |-> TRUE, version |-> version, mint |-> mint,
                       slot |-> slot]
        /\ UNCHANGED <<token_reserves, auto_trader, tasks, decoded, last>>
        /\ UNCHANGED <<data, parsed, now, cache_vars, faults, trader_vars, exec, startup>>

\* a transaction whose account list does not hold the target, or the end of
\* the entries: nothing is decoded
skip_message ==
    /\ message' = NoMessage
    /\ UNCHANGED <<token_reserves, auto_trader, tasks, decoded, last>>
    /\ UNCHANGED <<data, parsed, now, cache_vars, faults, trader_vars, exec, startup>>

\* one instruction of a V0 message
process_message_v0 ==
    \E event \in CreateEvents \cup BuyEvents :
        /\ message # NoMessage
        /\ message.version = "V0"
        /\ decoded < MaxInstructions
        /\ IF event.type = "CreateEvent"
           THEN on_create(message.mint)
           ELSE on_buy(message.mint, event.amount, event.max_sol_cost,
                       token_price_v0(message.mint), message.slot)
        /\ decoded' = decoded + 1
        /\ last' = Handled(event, message.mint)
        /\ UNCHANGED <<auto_trader, message, data, parsed, now, cache_vars, faults,
                       trader_vars, exec, startup>>

\* one instruction of a legacy message
process_message_legacy ==
    \E event \in CreateEvents \cup BuyEvents :
        /\ message # NoMessage
        /\ message.version = "Legacy"
        /\ decoded < MaxInstructions
        /\ IF event.type = "CreateEvent"
           THEN on_create(message.mint)
           ELSE on_buy(message.mint, event.amount, event.max_sol_cost,
                       token_price_legacy(message.mint), message.slot)
        /\ decoded' = decoded + 1
        /\ last' = Handled(event, message.mint)
        /\ UNCHANGED <<auto_trader, message, data, parsed, now, cache_vars, faults,
                       trader_vars, exec, startup>>

(***************************************************************************)
(* The trader: snipe tasks, the delayed-sell store, the sell poller        *)
(* (utils/auto_trader.rs, utils/redis.rs, transaction/mod.rs)              *)
(***************************************************************************)
\* `let buy_amount = 100_000_000`, and BUY_SOL_AMOUNT's default 0.1 SOL
DefaultBuyAmount == U64Dec(<<100, 0, 0>>)

\* the defaults of MIN_SOL_PRICE (0.5) and MAX_SOL_PRICE (3.0), in lamports
MainPriceRange == <<U64Dec(<<500, 0, 0>>), U64Dec(<<3, 0, 0, 0>>)>>

\* the price of a mint right after its CreateEvent
InitialPrice == F64Quotient(InitialVirtualSolReserves, InitialVirtualTokenReserves)

\* (0.1 / 0.000000033 * 0.85 * 1_000_000.0).floor() as u64: the amount of
\* a snipe at the default price, and the poller's estimate when no amount
\* is stored
FallbackAmount == U64Dec(<<2, 575, 757, 575, 757>>)

\* (0.1 / (30.0 / 1_073_000_000.0) * 0.85 * 1_000_000.0).floor() as u64
InitialPriceAmount == U64Dec(<<3, 40, 166, 666, 666>>)

\* rank of the members of the sorted set among equal scores (lexicographic)
MintRank == ("MintA" :> 1) @@ ("MintB" :> 2)

\* the sell task as AutoTrader::start spawns it: at the top of its loop
PollerStart ==
    [pc |-> "claim", read |-> <<>>, read_scores |-> <<>>, read_at |-> 0,
     mints |-> <<>>, claimed |-> <<>>, returned_at |-> 0, idx |-> 0,
     amount |-> U64Zero, asks |-> 0, sells |-> <<>>]

\* a snipe task that has ended: its locals are dropped
TaskDone == [pc |-> "done"]

\* a mutant of should_snipe: both bounds exclusive
should_snipe_exclusive(sol_amount) ==
    /\ U64Lt(trader.min_sol_price, sol_amount)
    /\ U64Lt(sol_amount, trader.max_sol_price)

\* AutoTrader::should_snipe
should_snipe(sol_amount) ==
    /\ U64Leq(trader.min_sol_price, sol_amount)
    /\ U64Leq(sol_amount, trader.max_sol_price)

\* `(buy_sol_f64 / token_price * 0.85 * 1_000_000.0).floor() as u64` for
\* buy_amount 100_000_000: the f64 results for the prices snipe tasks carry
\* here. x / inf is 0.0; NaN `as u64` is 0.
snipe_token_amount(token_price) ==
    CASE token_price.class \in {"infinite", "nan"} -> U64Zero
      [] token_price = DefaultTokenPrice -> FallbackAmount
      [] token_price = InitialPrice -> InitialPriceAmount

\* Redis ZADD: the member's score is set, whether it was present or not
zadd(index, mint, score) == (mint :> score) @@ index

\* Redis HSET
hset(hash, field, value) == (field :> value) @@ hash

\* Redis ZREM
zrem(index, mint) == [m \in DOMAIN index \ {mint} |-> index[m]]

\* `for mint in &mints_to_sell { conn.zrem(..) }` over the first k members
RECURSIVE zrem_first(_, _, _)
zrem_first(index, mints, k) ==
    IF k = 0 THEN index
    ELSE zrem(zrem_first(index, mints, k - 1), mints[k])

\* Redis ZRANGEBYSCORE 0 max: members by ascending score, then by member
zrangebyscore(index, max) ==
    LET due == {m \in DOMAIN index : index[m] <= max}
        Before(x, m) == \/ index[x] < index[m]
                        \/ index[x] = index[m] /\ MintRank[x] < MintRank[m]
        Pos(m) == 1 + Cardinality({x \in due : Before(x, m)})
    IN  [i \in 1..Cardinality(due) |-> CHOOSE m \in due : Pos(m) = i]

\* the members of a Vec<String>
Members(mints) == {mints[i] : i \in DOMAIN mints}

\* RedisClient::get_mint_amount on an answer of HGET
get_mint_amount(hash, mint) ==
    IF mint \in DOMAIN hash THEN parse_u64(hash[mint]) ELSE [some |-> FALSE]

\* the snipe task of a buy: tokio::spawn at processor/mod.rs:136 with the
\* inputs of an observed Buy
spawn_snipe(mints, sol_amounts, prices) ==
    /\ Len(tasks) < MaxTasks
    /\ \E mint \in mints, sol_amount \in sol_amounts, price \in prices,
          slot \in Slots :
          tasks' = SpawnSnipe(mint, sol_amount, price, slot)
    /\ UNCHANGED <<processor_vars, now, cache_vars, faults, trader_vars>>

\* a mutant of task_should_snipe: the guard of the first lock is kept
task_should_snipe_holding(i) ==
    /\ i \in DOMAIN tasks
    /\ tasks[i].pc = "spawned"
    /\ trader_lock = NoProc
    /\ tasks' = [tasks EXCEPT ![i].pc =
                   IF should_snipe(tasks[i].sol_amount)
                   THEN "decided" ELSE "declined"]
    /\ trader_lock' = TaskId(i)
    /\ UNCHANGED <<processor_vars, now, cache_vars, faults, trader,
                   store_vars, poller>>

\* `let should_snipe = { let trader = trader_clone.lock().await;
\*  trader.should_snipe(sol_amount_copy) }`: the lock is taken and released
task_should_snipe(i) ==
    /\ i \in DOMAIN tasks
    /\ tasks[i].pc = "spawned"
    /\ trader_lock = NoProc
    /\ tasks' = [tasks EXCEPT ![i].pc =
                   IF should_snipe(tasks[i].sol_amount)
                   THEN "decided" ELSE "declined"]
    /\ UNCHANGED <<processor_vars, now, cache_vars, faults, trader_vars>>

\* Pubkey::from_str on a mint string: the strings the scan produces with
\* Pubkey::to_string parse, any other text here does not
Pubkey_from_str(text) ==
    IF text \in Mints THEN [ok |-> TRUE, value |-> text] ELSE [ok |-> FALSE]

\* the second lock and snipe_token up to its call of get_latest_blockhash:
\* a mint string that does not parse, or a price <= 0.0, returns Err (the
\* guard is dropped), otherwise the token amount is computed and the
\* blockhash requested
task_snipe_token(i) ==
    /\ i \in DOMAIN tasks
    /\ tasks[i].pc = "decided"
    /\ trader_lock = NoProc
    /\ IF ~Pubkey_from_str(tasks[i].mint).ok \/ tasks[i].token_price.class = "zero"
       THEN /\ tasks' = [tasks EXCEPT ![i] = TaskDone]
            /\ UNCHANGED <<trader_lock, calls>>
       ELSE /\ tasks' = [tasks EXCEPT ![i] =
                           [pc |-> "blockhash", mint |-> tasks[i].mint,
                            sol_amount |-> tasks[i].sol_amount,
                            token_price |-> tasks[i].token_price,
                            token_amount |->
                               snipe_token_amount(tasks[i].token_price),
                            buy |-> "none"]]
            /\ trader_lock' = TaskId(i)
            /\ calls' = [calls EXCEPT ![TaskId(i)] = [st |-> "waiting"]]
    /\ UNCHANGED <<processor_vars, now, cached_blockhash, cache_lock, faults,
                   trader, store_vars, poller>>

\* what pump_buy and pump_sell can do: submit, be rejected by the RPC node,
\* or, with no cached blockhash, panic in `.unwrap()` of their own fetch: the
\* node that has just failed the cache's fetch fails this one too
SubmitOutcomes(blockhash_ok) ==
    {"ok"} \cup (IF faults < MaxFaults THEN {"rejected"} ELSE {})
           \cup (IF blockhash_ok THEN {} ELSE {"panic"})

\* a mutant of after_pump_buy: the sell is scheduled whatever pump_buy
\* returned
after_pump_buy_unchecked(task, outcome) ==
    [task EXCEPT !.pc = "store", !.buy = outcome]

\* `match pump_buy(..).await`: Ok(signature) goes on to
\* store_mint_with_amount, Err(e) returns Err
after_pump_buy(task, outcome) ==
    IF outcome = "ok" THEN [task EXCEPT !.pc = "store", !.buy = outcome]
    ELSE TaskDone

\* pump_buy with the blockhash the cache returned (None on error)
task_pump_buy(i) ==
    /\ i \in DOMAIN tasks
    /\ tasks[i].pc = "blockhash"
    /\ calls[TaskId(i)].st = "returned"
    /\ \E outcome \in SubmitOutcomes(calls[TaskId(i)].ok) :
          /\ tasks' = [tasks EXCEPT ![i] = after_pump_buy(@, outcome)]
          /\ trader_lock' = IF outcome = "ok" THEN trader_lock ELSE NoProc
          /\ faults' = IF outcome = "ok" THEN faults ELSE faults + 1
    /\ calls' = [calls EXCEPT ![TaskId(i)] = NoCall]
    /\ UNCHANGED <<processor_vars, now, cached_blockhash, cache_lock,
                   trader, store_vars, poller>>

\* store_mint_with_amount under the connection lock: ZADD with the score
\* now + delay_ms, then HSET of amount.to_string(); each can fail with `?`
store_mint_with_amount(mint, amount, delay_ms) ==
    /\ now + delay_ms <= MaxTime
    /\ \E outcome \in {"ok"} \cup (IF faults < MaxFaults
                                   THEN {"zadd_err", "hset_err"} ELSE {}) :
          /\ mints_to_sell' =
                IF outcome = "zadd_err" THEN mints_to_sell
                ELSE zadd(mints_to_sell, mint, now + delay_ms)
          /\ mint_amounts' =
                IF outcome = "ok"
                THEN hset(mint_amounts, mint, to_string(amount))
                ELSE mint_amounts
          /\ sched' = IF outcome = "ok"
                      THEN (mint :> [due |-> now + delay_ms, amount |-> amount])
                           @@ sched
                      ELSE sched
          /\ owed' = IF outcome = "ok" THEN owed \cup {mint} ELSE owed
          /\ faults' = IF outcome = "ok" THEN faults ELSE faults + 1

\* the end of snipe_token after a successful pump_buy: the sell is
\* scheduled, snipe_token returns and the trader guard is dropped
task_store_at(i, pc) ==
    /\ i \in DOMAIN tasks
    /\ tasks[i].pc = pc
    /\ store_mint_with_amount(tasks[i].mint, tasks[i].token_amount,
                              trader.sell_delay_ms)
    /\ tasks' = [tasks EXCEPT ![i] = TaskDone]
    /\ trader_lock' = NoProc
    /\ UNCHANGED <<processor_vars, now, cache_vars, trader, poller>>

\* the same with the connection lock taken and released in the one step
task_store_mint_with_amount(i) == task_store_at(i, "store")

\* store_mint_with_amount as some snipe task calls it after its buy
schedule(mints, amounts) ==
    /\ \E mint \in mints, amount \in amounts :
          store_mint_with_amount(mint, amount, trader.sell_delay_ms)
    /\ UNCHANGED <<processor_vars, tasks, now, cache_vars, trader, trader_lock,
                   poller>>

\* get_mints_to_sell, the first half of get_and_remove_mints_to_sell: the
\* due members are read under the connection lock, and the lock is released.
\* An empty answer returns Ok(vec![]); an error returns Err.
poller_get_mints_at(pc) ==
    /\ poller.pc = pc
    /\ \E outcome \in {"ok"} \cup (IF faults < MaxFaults THEN {"err"} ELSE {}) :
          LET due == zrangebyscore(mints_to_sell, now)
          IN  /\ poller' =
                    IF outcome = "ok" /\ due # <<>>
                    THEN [poller EXCEPT
                            !.pc = "remove", !.read = due,
                            !.read_scores = [m \in Members(due) |-> mints_to_sell[m]],
                            !.read_at = now]
                    ELSE [poller EXCEPT !.pc = "sleep"]
              /\ faults' = IF outcome = "ok" THEN faults ELSE faults + 1
    /\ UNCHANGED <<processor_vars, tasks, now, cache_vars, trader, trader_lock,
                   store_vars>>

\* the same with the connection lock taken and released in the one step
poller_get_mints_to_sell == poller_get_mints_at("claim")

\* a mutant of poller_remove's effect on the hash: the amount records of
\* the batch are deleted too (what remove_sold_mint would do)
remove_amounts_hdel(hash, mints) ==
    [m \in DOMAIN hash \ Members(mints) |-> hash[m]]

\* the effect of the removal loop on "mint_amounts": none, there is no HDEL
remove_amounts(hash, mints) == hash

\* the second half of get_and_remove_mints_to_sell: the connection lock is
\* taken again and each member read is removed with ZREM. A ZREM that fails
\* returns Err with the members before it removed. On Ok the poller asks
\* for the blockhash.
poller_remove_at(pc) ==
    /\ poller.pc = pc
    /\ \E k \in (IF faults < MaxFaults THEN 0..Len(poller.read)
                 ELSE {Len(poller.read)}) :
          /\ mints_to_sell' = zrem_first(mints_to_sell, poller.read, k)
          /\ mint_amounts' = remove_amounts(mint_amounts, poller.read)
          /\ IF k = Len(poller.read)
             THEN /\ poller' = [poller EXCEPT
                                  !.pc = "lookup", !.mints = poller.read,
                                  !.claimed = [m \in Members(poller.read) \cap
                                                     DOMAIN sched |-> sched[m]],
                                  !.returned_at = now, !.idx = 1,
                                  !.asks = @ + 1]
                  /\ sched' = [m \in DOMAIN sched \ Members(poller.read) |->
                                  sched[m]]
                  /\ calls' = [calls EXCEPT ![PollerId] = [st |-> "waiting"]]
                  /\ faults' = faults
             ELSE /\ poller' = [poller EXCEPT !.pc = "sleep"]
                  /\ sched' = sched
                  /\ calls' = calls
                  /\ faults' = faults + 1
    /\ UNCHANGED <<processor_vars, tasks, now, cached_blockhash, cache_lock,
                   trader, trader_lock, owed>>

\* the same with the connection lock taken and released in the one step
poller_remove == poller_remove_at("remove")

\* the poller after the mint at idx: the next mint, or the sleep
AfterMint(p) ==
    IF p.idx < Len(p.mints)
    THEN [p EXCEPT !.pc = "lookup", !.idx = p.idx + 1]
    ELSE [p EXCEPT !.pc = "sleep"]

\* get_mint_amount for the current mint: Ok(Some(amount)), Ok(None) with the
\* estimate taken instead, or Err and the mint is skipped
poller_get_mint_amount_at(pc) ==
    /\ poller.pc = pc
    /\ calls[PollerId].st = "returned"
    /\ \E outcome \in {"ok"} \cup (IF faults < MaxFaults THEN {"err"} ELSE {}) :
          LET found == get_mint_amount(mint_amounts, poller.mints[poller.idx])
          IN  /\ poller' =
                    IF outcome = "ok"
                    THEN [poller EXCEPT
                            !.pc = "sell",
                            !.amount = IF found.some THEN found.value
                                       ELSE FallbackAmount]
                    ELSE AfterMint(poller)
              /\ faults' = IF outcome = "ok" THEN faults ELSE faults + 1
    /\ UNCHANGED <<processor_vars, tasks, now, cache_vars, trader, trader_lock,
                   store_vars>>

\* the same with the connection lock taken and released in the one step
poller_get_mint_amount == poller_get_mint_amount_at("lookup")

\* `match blockhash_cache.get_latest_blockhash().await { Ok(hash) =>
\* Some(hash), Err(e) => None }`
blockhash_option(answer) ==
    IF answer.ok THEN [some |-> TRUE, hash |-> answer.result] ELSE NoBlockhash

\* a mutant of sell_call: pump_sell is left to fetch its own blockhash
sell_call_own_fetch(mint, token_amount, blockhash) ==
    [mint |-> mint, token_amount |-> token_amount,
     min_sol_receive |-> U64Zero, cached_blockhash |-> NoBlockhash]

\* the arguments of `pump_sell(.., mint_pubkey, amount, 0, None,
\* blockhash.clone())`
sell_call(mint, token_amount, blockhash) ==
    [mint |-> mint, token_amount |-> token_amount,
     min_sol_receive |-> U64Zero, cached_blockhash |-> blockhash]

\* pump_sell(mint, token_amount, 0, None, blockhash): submitted, rejected
\* (logged), or, with no blockhash, a panic that ends the sell task
poller_pump_sell ==
    /\ poller.pc = "sell"
    /\ \E outcome \in SubmitOutcomes(calls[PollerId].ok) :
          /\ poller' =
                LET called == [poller EXCEPT
                                 !.sells = Append(@,
                                    sell_call(poller.mints[poller.idx],
                                              poller.amount,
                                              blockhash_option(calls[PollerId])))]
                IN  IF outcome = "panic"
                    THEN [called EXCEPT !.pc = "dead"]
                    ELSE AfterMint(called)
          /\ faults' = IF outcome = "ok" THEN faults ELSE faults + 1
    /\ owed' = owed \ {poller.mints[poller.idx]}
    /\ UNCHANGED <<processor_vars, tasks, now, cache_vars, trader, trader_lock,
                   mints_to_sell, mint_amounts, sched>>

\* `sleep(Duration::from_secs(1))`, then the top of the loop
poller_sleep ==
    /\ poller.pc = "sleep"
    /\ poller' = PollerStart
    /\ calls' = [calls EXCEPT ![PollerId] = NoCall]
    /\ UNCHANGED <<processor_vars, tasks, now, cached_blockhash, cache_lock,
                   faults, trader, trader_lock, store_vars>>

\* TransactionProcessor::new
ProcessorInit ==
    /\ token_reserves = <<>>
    /\ auto_trader = FALSE
    /\ message = NoMessage
    /\ tasks = <<>>
    /\ decoded = 0
    /\ last = NoInstruction
    /\ data = <<>>
    /\ parsed = NoParse
    /\ exec = NoExec
    /\ startup = NoStartup

\* BlockhashCache::new
CacheInit ==
    /\ now = 0
    /\ cached_blockhash = NoBlockhash
    /\ cache_lock = NoProc
    /\ calls = [p \in Procs |-> NoCall]

\* AutoTrader as main configures it (set_price_range, set_buy_amount,
\* set_sell_delay, start), with an empty store and the poller started
TraderInit(price_ranges) ==
    /\ faults = 0
    /\ trader \in { [min_sol_price |-> r[1], max_sol_price |-> r[2],
                     buy_amount |-> DefaultBuyAmount,
                     sell_delay_ms |-> SellDelay] : r \in price_ranges }
    /\ trader_lock = NoProc
    /\ mints_to_sell = <<>>
    /\ mint_amounts = <<>>
    /\ poller = PollerStart
    /\ sched = <<>>
    /\ owed = {}

LedgerInit ==
    /\ ProcessorInit
    /\ CacheInit
    /\ TraderInit({MainPriceRange})

LedgerNext ==
    \/ set_auto_trader
    \/ begin_message
    \/ skip_message
    \/ process_message_v0
    \/ process_message_legacy

\* the scan of the stream, with the tasks it launches left where they start
SpecLedger == LedgerInit /\ [][LedgerNext]_vars

\* the cache under calls made at any time by the poller and the snipe tasks
SpecCacheInit ==
    /\ ProcessorInit
    /\ CacheInit
    /\ TraderInit({MainPriceRange})

SpecCache == SpecCacheInit /\ [][CacheNext]_vars

\* every caller is suspended in `lock().await` on a cache that is empty, or
\* that holds an anchor whose age has just reached max_age
ContendInit ==
    /\ ProcessorInit
    /\ TraderInit({MainPriceRange})
    /\ cache_lock = NoProc
    /\ calls = [p \in Procs |-> [st |-> "waiting"]]
    /\ \/ now = 0 /\ cached_blockhash = NoBlockhash
       \/ /\ now = MaxAge
          /\ cached_blockhash = [some |-> TRUE, hash |-> LatestBlockhash(0),
                                 timestamp |-> 0]

ContendNext ==
    \/ tick
    \/ \E p \in Procs : cache_check(p)
    \/ \E p \in Procs : cache_fetch_ok(p)
    \/ \E p \in Procs : cache_fetch_err(p)

\* concurrent calls of get_latest_blockhash on an empty or expired cache
SpecContend == ContendInit /\ [][ContendNext]_vars

\* the processor after main's set_auto_trader, before any entry
TraderAttached ==
    /\ token_reserves = <<>>
    /\ auto_trader = TRUE
    /\ message = NoMessage
    /\ tasks = <<>>
    /\ decoded = 0
    /\ last = NoInstruction
    /\ data = <<>>
    /\ parsed = NoParse
    /\ exec = NoExec
    /\ startup = NoStartup

U64One == U64Dec(<<1>>)

\* configured (min, max) pairs: main's defaults, AutoTrader::new's defaults,
\* a single admitted value, every value admitted, an empty range
DecisionPriceRanges ==
    { MainPriceRange,
      <<U64Dec(<<500, 0, 0>>), U64Dec(<<1, 0, 0, 0>>)>>,
      <<U64Dec(<<1, 0, 0, 0>>), U64Dec(<<1, 0, 0, 0>>)>>,
      <<U64Zero, U64Max>>,
      <<U64Dec(<<3, 0, 0, 0>>), U64Dec(<<500, 0, 0>>)>> }

\* sol amounts at and next to the configured bounds, and the ends of u64
DecisionSolAmounts ==
    { saturating_sub(trader.min_sol_price, U64One), trader.min_sol_price,
      saturating_add(trader.min_sol_price, U64One),
      saturating_sub(trader.max_sol_price, U64One), trader.max_sol_price,
      saturating_add(trader.max_sol_price, U64One), U64Zero, U64Max }

DecisionInit ==
    /\ TraderAttached
    /\ CacheInit
    /\ TraderInit(DecisionPriceRanges)

DecisionNext ==
    \/ spawn_snipe({"MintA"}, DecisionSolAmounts, {DefaultTokenPrice})
    \/ \E i \in 1..MaxTasks : task_should_snipe(i)

\* the decision of the snipe tasks over configured ranges and sol amounts
SpecDecision == DecisionInit /\ [][DecisionNext]_vars

\* the sol amount of the buys that launch snipes here: 1 SOL
StoreSolAmounts == { U64Dec(<<1, 0, 0, 0>>) }

\* the prices the snipe tasks carry: no reserve state, or a fresh mint
StorePrices == { DefaultTokenPrice, InitialPrice }

StoreInit ==
    /\ TraderAttached
    /\ CacheInit
    /\ TraderInit({MainPriceRange})

StoreNext ==
    \/ tick
    \/ spawn_snipe(Mints, StoreSolAmounts, StorePrices)
    \/ \E i \in 1..MaxTasks : task_should_snipe(i)
    \/ \E i \in 1..MaxTasks : task_snipe_token(i)
    \/ \E i \in 1..MaxTasks : task_pump_buy(i)
    \/ \E i \in 1..MaxTasks : task_store_mint_with_amount(i)
    \/ \E p \in Procs : cache_check(p)
    \/ \E p \in Procs : cache_fetch_ok(p)
    \/ \E p \in Procs : cache_fetch_err(p)
    \/ poller_get_mints_to_sell
    \/ poller_remove
    \/ poller_get_mint_amount
    \/ poller_pump_sell
    \/ poller_sleep

\* the snipe tasks, the store and the poller, interleaved at every await
SpecStore == StoreInit /\ [][StoreNext]_vars

\* a step of the sell task: its loop, and its call of the cache
PollerStep ==
    \/ poller_get_mints_to_sell
    \/ poller_remove
    \/ poller_get_mint_amount
    \/ poller_pump_sell
    \/ poller_sleep
    \/ cache_check(PollerId)
    \/ cache_fetch_ok(PollerId)

\* a step of a snipe task
TaskStep ==
    \E i \in 1..MaxTasks :
        \/ task_should_snipe(i)
        \/ task_snipe_token(i)
        \/ task_pump_buy(i)
        \/ task_store_mint_with_amount(i)
        \/ cache_check(TaskId(i))
        \/ cache_fetch_ok(TaskId(i))

\* the runtime schedules the sell task and the snipe tasks whenever they
\* can run, and time passes
StoreFairness ==
    /\ WF_vars(tick)
    /\ WF_vars(PollerStep)
    /\ WF_vars(TaskStep)

\* the snipes of one token, with the poller
OneMintNext ==
    \/ tick
    \/ spawn_snipe({"MintA"}, StoreSolAmounts, {DefaultTokenPrice})
    \/ \E i \in 1..MaxTasks : task_should_snipe(i)
    \/ \E i \in 1..MaxTasks : task_snipe_token(i)
    \/ \E i \in 1..MaxTasks : task_pump_buy(i)
    \/ \E i \in 1..MaxTasks : task_store_mint_with_amount(i)
    \/ \E p \in Procs : cache_check(p)
    \/ \E p \in Procs : cache_fetch_ok(p)
    \/ \E p \in Procs : cache_fetch_err(p)
    \/ poller_get_mints_to_sell
    \/ poller_remove
    \/ poller_get_mint_amount
    \/ poller_pump_sell
    \/ poller_sleep

SpecStoreFair == StoreInit /\ [][OneMintNext]_vars /\ StoreFairness

\* a mint string that is not the text of a public key
InvalidMint == "not-a-pubkey"

\* sol amounts of the buys snipe tasks are launched for: inside and above
\* the configured range
SnipeSolAmounts == { U64Dec(<<1, 0, 0, 0>>), U64Dec(<<4, 0, 0, 0>>) }

\* the prices they carry: a fresh mint's, that of an emptied token reserve
\* (+inf), and 0.0
SnipePrices ==
    { InitialPrice, F64Quotient(InitialVirtualSolReserves, U64Zero),
      F64Quotient(U64Zero, InitialVirtualTokenReserves) }

SnipeNext ==
    \/ tick
    \/ spawn_snipe({"MintA", InvalidMint}, SnipeSolAmounts, SnipePrices)
    \/ \E i \in 1..MaxTasks : task_should_snipe(i)
    \/ \E i \in 1..MaxTasks : task_snipe_token(i)
    \/ \E i \in 1..MaxTasks : task_pump_buy(i)
    \/ \E i \in 1..MaxTasks : task_store_mint_with_amount(i)
    \/ \E i \in 1..MaxTasks : cache_check(TaskId(i))
    \/ \E i \in 1..MaxTasks : cache_fetch_ok(TaskId(i))
    \/ \E i \in 1..MaxTasks : cache_fetch_err(TaskId(i))

\* the snipe tasks of buys of every kind, without the poller
SpecSnipe == StoreInit /\ [][SnipeNext]_vars

\* the amounts of the snipes at the prices above
StoreAmounts == { snipe_token_amount(p) : p \in StorePrices }

ClaimNext ==
    \/ tick
    \/ schedule(Mints, StoreAmounts)
    \/ \E p \in Procs : cache_check(p)
    \/ \E p \in Procs : cache_fetch_ok(p)
    \/ \E p \in Procs : cache_fetch_err(p)
    \/ poller_get_mints_to_sell
    \/ poller_remove
    \/ poller_get_mint_amount
    \/ poller_pump_sell
    \/ poller_sleep

\* the store and the poller under schedules made at any time
SpecClaim == StoreInit /\ [][ClaimNext]_vars

(***************************************************************************)
(* The decoder (instruction/mod.rs)                                        *)
(***************************************************************************)
\* a byte string is a sequence of numbers 0..255; data[a..b] of the source
Slice(bytes, a, b) == SubSeq(bytes, a + 1, b)

CREATE_EVENT_DISCRIMINATOR == <<24, 30, 200, 40, 5, 28, 7, 119>>

BUY_EVENT_DISCRIMINATOR == <<102, 6, 61, 18, 1, 218, 235, 234>>

\* the length of a Pubkey in bytes
PubkeyLen == 32

\* Pubkey::default(): 32 zero bytes
PubkeyDefault == [i \in 1..PubkeyLen |-> 0]

\* the results of parse_instruction_data
Err(text) == [kind |-> "Err", message |-> text]

Panic(text) == [kind |-> "panic", message |-> text]

OkCreate(name, symbol, uri, user) ==
    [kind |-> "Ok", type |-> "CreateEvent", name |-> name, symbol |-> symbol,
     uri |-> uri, user |-> user]

OkBuy(amount, max_sol_cost) ==
    [kind |-> "Ok", type |-> "Buy", amount |-> amount,
     max_sol_cost |-> max_sol_cost]

\* u32::from_le_bytes, kept as two 16-bit halves: value = hi * 2^16 + lo
u32_from_le_bytes(bytes) ==
    [hi |-> bytes[3] + 256 * bytes[4], lo |-> bytes[1] + 256 * bytes[2]]

\* `offset + n > len` for n read by u32_from_le_bytes and widened to usize
\* (64 bits: the sum cannot wrap); every payload is shorter than 2^16 bytes
Exceeds(offset, n, len) == n.hi # 0 \/ offset + n.lo > len

\* u64::from_be_bytes, as four 16-bit limbs, most significant first
u64_from_be_bytes(bytes) ==
    << 256 * bytes[1] + bytes[2], 256 * bytes[3] + bytes[4],
       256 * bytes[5] + bytes[6], 256 * bytes[7] + bytes[8] >>

\* u64::from_le_bytes, as four 16-bit limbs, most significant first
u64_from_le_bytes(bytes) ==
    << bytes[7] + 256 * bytes[8], bytes[5] + 256 * bytes[6],
       bytes[3] + 256 * bytes[4], bytes[1] + 256 * bytes[2] >>

\* String::from_utf8 succeeds; the payloads of the model hold ASCII bytes and
\* the byte 0xFF, which no UTF-8 sequence contains
Utf8Valid(bytes) == \A i \in 1..Len(bytes) : bytes[i] < 128

\* borsh reads a String at `offset`: a u32 little-endian length, then that
\* many bytes of UTF-8
BorshString(bytes, offset) ==
    IF offset + 4 > Len(bytes) THEN [ok |-> FALSE]
    ELSE LET n == u32_from_le_bytes(Slice(bytes, offset, offset + 4))
         IN  IF Exceeds(offset + 4, n, Len(bytes)) THEN [ok |-> FALSE]
             ELSE IF ~Utf8Valid(Slice(bytes, offset + 4, offset + 4 + n.lo))
             THEN [ok |-> FALSE]
             ELSE [ok |-> TRUE,
                   value |-> Slice(bytes, offset + 4, offset + 4 + n.lo),
                   offset |-> offset + 4 + n.lo]

\* CreateArgs::try_from_slice: name, symbol, uri, and no byte left unread
CreateArgs_try_from_slice(bytes) ==
    LET name == BorshString(bytes, 0)
        symbol == IF name.ok THEN BorshString(bytes, name.offset)
                  ELSE [ok |-> FALSE]
        uri == IF symbol.ok THEN BorshString(bytes, symbol.offset)
               ELSE [ok |-> FALSE]
    IN  IF uri.ok /\ uri.offset = Len(bytes)
        THEN [ok |-> TRUE, name |-> name.value, symbol |-> symbol.value,
              uri |-> uri.value]
        ELSE [ok |-> FALSE]

\* BuyArgs::try_from_slice: two u64, and no byte left unread
BuyArgs_try_from_slice(bytes) ==
    IF Len(bytes) = 16
    THEN [ok |-> TRUE, amount |-> u64_from_le_bytes(Slice(bytes, 0, 8)),
          max_sol_cost |-> u64_from_le_bytes(Slice(bytes, 8, 16))]
    ELSE [ok |-> FALSE]

\* the manual decode of one length-prefixed string at `offset`; `field` and
\* `length` name it in the error messages
ManualString(bytes, offset, length, field) ==
    IF offset + 4 > Len(bytes) THEN [ok |-> FALSE, error |-> Err(length)]
    ELSE LET n == u32_from_le_bytes(Slice(bytes, offset, offset + 4))
         IN  IF Exceeds(offset + 4, n, Len(bytes))
             THEN [ok |-> FALSE, error |-> Err(field)]
             ELSE IF ~Utf8Valid(Slice(bytes, offset + 4, offset + 4 + n.lo))
             THEN [ok |-> FALSE, error |-> Err("invalid utf-8 sequence")]
             ELSE [ok |-> TRUE,
                   value |-> Slice(bytes, offset + 4, offset + 4 + n.lo),
                   offset |-> offset + 4 + n.lo]

\* the manual decode of name, symbol and uri, starting after the discriminator
ManualStrings(bytes) ==
    LET name == ManualString(bytes, 8, "Insufficient data for name length",
                             "Insufficient data for name")
    IN  IF ~name.ok THEN name
        ELSE LET symbol == ManualString(bytes, name.offset,
                                        "Insufficient data for symbol length",
                                        "Insufficient data for symbol")
             IN  IF ~symbol.ok THEN symbol
                 ELSE LET uri == ManualString(bytes, symbol.offset,
                                              "Insufficient data for URI length",
                                              "Insufficient data for URI")
                      IN  IF ~uri.ok THEN uri
                          ELSE [ok |-> TRUE, name |-> name.value,
                                symbol |-> symbol.value, uri |-> uri.value,
                                offset |-> uri.offset]

\* the creator of the structured path: user_offset = data.len() - 32 in usize. Below 32 bytes the
\* subtraction panics where overflow checks are compiled in; where they are
\* not, user_offset wraps to 2^64 - (32 - len), passes `>= 8`, user_offset + 32
\* wraps back to len and passes `<= data.len()`, and the slice
\* data[user_offset..len] panics because it starts past its end
CreateUser(bytes, overflow_checks) ==
    IF Len(bytes) < PubkeyLen
    THEN [panic |-> TRUE,
          message |-> IF overflow_checks
                      THEN "attempt to subtract with overflow"
                      ELSE "slice index starts past its end"]
    ELSE LET user_offset == Len(bytes) - PubkeyLen
         IN  IF user_offset >= 8 /\ user_offset + PubkeyLen <= Len(bytes)
             THEN [panic |-> FALSE,
                   user |-> Slice(bytes, user_offset, user_offset + PubkeyLen)]
             ELSE [panic |-> FALSE, user |-> PubkeyDefault]

\* the arm of CREATE_EVENT_DISCRIMINATOR
ParseCreate(bytes, overflow_checks) ==
    LET args == CreateArgs_try_from_slice(Slice(bytes, 8, Len(bytes)))
    IN  IF args.ok
        THEN LET user == CreateUser(bytes, overflow_checks)
             IN  IF user.panic THEN Panic(user.message)
                 ELSE OkCreate(args.name, args.symbol, args.uri, user.user)
        ELSE LET strings == ManualStrings(bytes)
             IN  IF ~strings.ok THEN strings.error
                 ELSE IF strings.offset + PubkeyLen > Len(bytes)
                 THEN Err("Insufficient data for user pubkey")
                 ELSE OkCreate(strings.name, strings.symbol, strings.uri,
                               Slice(bytes, strings.offset,
                                     strings.offset + PubkeyLen))

\* the arm of BUY_EVENT_DISCRIMINATOR
ParseBuy(bytes) ==
    LET args == BuyArgs_try_from_slice(Slice(bytes, 8, Len(bytes)))
    IN  IF args.ok THEN OkBuy(args.amount, args.max_sol_cost)
        ELSE IF Len(bytes) < 24
        THEN Err("Insufficient data for Buy instruction")
        ELSE OkBuy(u64_from_le_bytes(Slice(bytes, 8, 16)),
                   u64_from_le_bytes(Slice(bytes, 16, 24)))

\* the arm [24, _, _, _, _, _, _, _]
ParseCreateCoin(bytes) ==
    LET strings == ManualStrings(bytes)
    IN  IF ~strings.ok THEN strings.error
        ELSE OkCreate(strings.name, strings.symbol, strings.uri, PubkeyDefault)

\* the arm [102, _, _, _, _, _, _, _]
ParseBuyTokens(bytes) ==
    IF Len(bytes) < 24 THEN Err("Insufficient data for BuyTokens instruction")
    ELSE OkBuy(u64_from_le_bytes(Slice(bytes, 8, 16)),
               u64_from_le_bytes(Slice(bytes, 16, 24)))

\* parse_instruction_data with the legacy arms taking every other payload
parse_instruction_data_lenient(bytes, overflow_checks) ==
    IF Len(bytes) < 8 THEN Err("Instruction data too short")
    ELSE IF Slice(bytes, 0, 8) = CREATE_EVENT_DISCRIMINATOR
    THEN ParseCreate(bytes, overflow_checks)
    ELSE IF Slice(bytes, 0, 8) = BUY_EVENT_DISCRIMINATOR
    THEN ParseBuy(bytes)
    ELSE IF bytes[1] <= 24 THEN ParseCreateCoin(bytes)
    ELSE ParseBuyTokens(bytes)

\* a mutant of parse_instruction_data: only the two exact discriminators
\* are decoded
parse_instruction_data_exact(bytes, overflow_checks) ==
    IF Len(bytes) < 8 THEN Err("Instruction data too short")
    ELSE IF Slice(bytes, 0, 8) = CREATE_EVENT_DISCRIMINATOR
    THEN ParseCreate(bytes, overflow_checks)
    ELSE IF Slice(bytes, 0, 8) = BUY_EVENT_DISCRIMINATOR
    THEN ParseBuy(bytes)
    ELSE Err("Unknown instruction data")

\* parse_instruction_data; overflow_checks tells whether the build checks
\* integer overflow
parse_instruction_data(bytes, overflow_checks) ==
    IF Len(bytes) < 8 THEN Err("Instruction data too short")
    ELSE IF Slice(bytes, 0, 8) = CREATE_EVENT_DISCRIMINATOR
    THEN ParseCreate(bytes, overflow_checks)
    ELSE IF Slice(bytes, 0, 8) = BUY_EVENT_DISCRIMINATOR
    THEN ParseBuy(bytes)
    ELSE IF bytes[1] = 24 THEN ParseCreateCoin(bytes)
    ELSE IF bytes[1] = 102 THEN ParseBuyTokens(bytes)
    ELSE Err("Unknown instruction data")

\* u32::to_le_bytes of a length below 2^16
u32_to_le_bytes(n) == <<n % 256, n \div 256, 0, 0>>

\* u64::to_le_bytes of four 16-bit limbs
u64_to_le_bytes(x) ==
    << x[4] % 256, x[4] \div 256, x[3] % 256, x[3] \div 256,
       x[2] % 256, x[2] \div 256, x[1] % 256, x[1] \div 256 >>

\* the borsh encoding of a String
EncodeString(text) == u32_to_le_bytes(Len(text)) \o text

\* a create payload: discriminator, name, symbol, uri, creator
CreatePayload(name, symbol, uri, user) ==
    CREATE_EVENT_DISCRIMINATOR \o EncodeString(name) \o EncodeString(symbol)
        \o EncodeString(uri) \o user

\* a buy payload: discriminator, amount, max_sol_cost
BuyPayload(amount, max_sol_cost) ==
    BUY_EVENT_DISCRIMINATOR \o u64_to_le_bytes(amount)
        \o u64_to_le_bytes(max_sol_cost)

\* the strings of the create payloads: "", "P" and "PEPE"
PayloadNames == { <<>>, <<80>>, <<80, 69, 80, 69>> }

\* "" and "$"
PayloadSymbols == { <<>>, <<36>> }

\* URIs of 0, 12 and 22 bytes: with them a record ends below 32 bytes, from
\* 32 to 39 bytes, and at 40 bytes or more
UriLens == {0, 12, 22}

PayloadUris == { [i \in 1..n |-> 96 + i] : n \in UriLens }

\* creators: 32 bytes that occur in no record field
PayloadUsers == { [i \in 1..PubkeyLen |-> 7], [i \in 1..PubkeyLen |-> 9] }

CreateFields ==
    { [name |-> n, symbol |-> s, uri |-> u, user |-> c] :
        n \in PayloadNames, s \in PayloadSymbols, u \in PayloadUris,
        c \in PayloadUsers }

BuyFields ==
    { [amount |-> a, max_sol_cost |-> s] :
        a \in BuyTokenAmounts, s \in BuySolAmounts }

ValidCreatePayloads ==
    { CreatePayload(f.name, f.symbol, f.uri, f.user) : f \in CreateFields }

ValidBuyPayloads == { BuyPayload(f.amount, f.max_sol_cost) : f \in BuyFields }

ValidPayloads == ValidCreatePayloads \cup ValidBuyPayloads

\* every prefix of a payload, the payload included
Prefixes(payload) == { SubSeq(payload, 1, n) : n \in 0..Len(payload) }

\* the longest payload made of one repeated byte
MaxFillLen == 25

\* first bytes of the payloads that carry no discriminator
FillBytes == {0, 24, 25, 102, 255}

\* payloads made of one repeated byte
FillPayloads == { [i \in 1..n |-> b] : n \in 0..MaxFillLen, b \in FillBytes }

\* valid payloads with the first or the last byte of the discriminator changed
DamagedPayloads ==
    { [p EXCEPT ![at] = 255 - p[at]] : p \in ValidPayloads, at \in {1, 8} }

\* create payloads whose name is not UTF-8
InvalidUtf8Payloads ==
    { CreatePayload(<<255>>, f.symbol, f.uri, f.user) : f \in CreateFields }

\* the payloads handed to the decoder
Payloads ==
    UNION { Prefixes(p) : p \in ValidPayloads } \cup FillPayloads
        \cup DamagedPayloads \cup InvalidUtf8Payloads

\* the build profiles: integer overflow checked (debug) or not (release)
OverflowChecks == BOOLEAN

\* the call parse_instruction_data(&instruction.data)
decode ==
    \E overflow_checks \in OverflowChecks :
        /\ parsed = NoParse
        /\ parsed' = parse_instruction_data(data, overflow_checks)
        /\ UNCHANGED <<token_reserves, auto_trader, message, tasks, decoded,
                       last, data>>
        /\ UNCHANGED <<now, cache_vars, faults, trader_vars, exec, startup>>

DecodeInit ==
    /\ token_reserves = <<>>
    /\ auto_trader = FALSE
    /\ message = NoMessage
    /\ tasks = <<>>
    /\ decoded = 0
    /\ last = NoInstruction
    /\ data \in Payloads
    /\ parsed = NoParse
    /\ exec = NoExec
    /\ startup = NoStartup
    /\ CacheInit
    /\ TraderInit({MainPriceRange})

DecodeNext == decode

\* the decoder applied to one payload
SpecDecode == DecodeInit /\ [][DecodeNext]_vars

(***************************************************************************)
(* The scan of transactions as they arrive: account lists, signatures,     *)
(* program ids and instruction data (processor/mod.rs)                     *)
(***************************************************************************)
\* TransactionProcessor.token_creator_pubkey
TargetKey == "Target"

\* the program id compared at processor/mod.rs:73
PumpKey == "6EF8rrecthR5Dkzon8Nwu78hRvfCKubJ14M5uBEwF6P"

\* account lists of the transactions: with the target as a program, with the
\* pump program, without the target, and with the target among fewer than
\* three accounts
AccountLists ==
    { <<"Payer", "MintA", "Curve", TargetKey>>,
      <<TargetKey, "MintB", "Curve", PumpKey>>,
      <<"Payer", "MintA", "Curve", PumpKey>>,
      <<"Payer", TargetKey>>,
      <<TargetKey>> }

\* the most signatures a transaction of the model carries
MaxSignatures == 1

\* the largest program_id_index of an instruction: one past the longest
\* account list
MaxProgramIdIndex == 4

\* instruction data of the scanned instructions: a create, two buys, a create
\* cut inside its creator, a create cut right after its uri, an unknown
\* discriminator, and an empty payload
ScanPayloads ==
    { CreatePayload(<<80>>, <<36>>, <<>>, [i \in 1..PubkeyLen |-> 7]),
      BuyPayload(U64Dec(<<1, 0, 0>>), U64Dec(<<2, 0, 0, 0>>)),
      BuyPayload(InitialVirtualTokenReserves, U64Max),
      SubSeq(CreatePayload(<<80>>, <<36>>, <<>>, [i \in 1..PubkeyLen |-> 7]),
             1, 30),
      CreatePayload(<<>>, <<>>, <<>>, <<>>),
      [i \in 1..8 |-> 0],
      <<>> }

\* the elements of a sequence
Range(seq) == { seq[i] : i \in DOMAIN seq }

\* the thread that runs process_entries has panicked
Panicked == last.op = "panic"

\* an indexing panic of the scan: the call of process_entries never returns
scan_panic(text) ==
    /\ last' = [op |-> "panic", message |-> text]
    /\ message' = NoMessage
    /\ UNCHANGED <<token_reserves, tasks>>

\* a decode error that ends the scan of the message
decode_error_abort ==
    /\ last' = [op |-> "skipped", before |-> token_reserves,
                tasks_before |-> Len(tasks)]
    /\ message' = NoMessage
    /\ UNCHANGED <<token_reserves, tasks>>

\* `if let Ok(..) = parse_instruction_data(..)` with an Err: nothing is done
\* and the loop goes on with the next instruction
decode_error ==
    /\ last' = [op |-> "skipped", before |-> token_reserves,
                tasks_before |-> Len(tasks)]
    /\ message' = [message EXCEPT !.errors = @ + 1]
    /\ UNCHANGED <<token_reserves, tasks>>

\* a mutant of contains_target: every transaction is taken
contains_anything(account_keys) == TRUE

\* `message.account_keys.contains(&self.token_creator_pubkey)`
contains_target(account_keys) == TargetKey \in Range(account_keys)

\* process_message_v0 / process_message_legacy up to the loop over the
\* instructions: the test of the account list, signatures[0],
\* account_keys[1], account_keys[2]
scan_transaction ==
    \E version \in Versions, account_keys \in AccountLists,
       signatures \in 0..MaxSignatures, slot \in Slots :
        /\ ~Panicked
        /\ decoded < MaxInstructions
        /\ IF ~contains_target(account_keys)
           THEN /\ message' = NoMessage
                /\ last' = [op |-> "ignored", account_keys |-> account_keys,
                            before |-> token_reserves,
                            tasks_before |-> Len(tasks)]
                /\ UNCHANGED <<token_reserves, tasks>>
           ELSE IF signatures = 0
           THEN scan_panic("transaction.signatures[0]")
           ELSE IF Len(account_keys) < 2
           THEN scan_panic("message.account_keys[1]")
           ELSE IF Len(account_keys) < 3
           THEN scan_panic("message.account_keys[2]")
           ELSE /\ message' = [open |-> TRUE, version |-> version,
                               mint |-> account_keys[2], slot |-> slot,
                               account_keys |-> account_keys, errors |-> 0]
                /\ UNCHANGED <<token_reserves, tasks, last>>
        /\ UNCHANGED <<auto_trader, decoded, data, parsed, now, cache_vars,
                       faults, trader_vars, exec, startup>>

\* one turn of the loop over the instructions of a message: the program id
\* is looked up, the data is decoded, and the Create or Buy arm is run, by
\* the function process_entries chose for the version of the message
scan_instruction_as(version) ==
    \E program_id_index \in 0..MaxProgramIdIndex, payload \in ScanPayloads,
       overflow_checks \in OverflowChecks :
        /\ ~Panicked
        /\ message # NoMessage
        /\ decoded < MaxInstructions
        /\ decoded' = decoded + 1
        /\ IF program_id_index >= Len(message.account_keys)
           THEN /\ scan_panic("message.account_keys[program_id_index]")
                /\ UNCHANGED <<data, parsed>>
           ELSE IF message.account_keys[program_id_index + 1]
                      \notin {TargetKey, PumpKey}
           THEN UNCHANGED <<token_reserves, tasks, message, last, data, parsed>>
           ELSE /\ data' = payload
                /\ parsed' = parse_instruction_data(payload, overflow_checks)
                /\ IF parsed'.kind = "panic"
                   THEN scan_panic(parsed'.message)
                   ELSE IF parsed'.kind = "Err"
                   THEN decode_error
                   ELSE /\ IF parsed'.type = "CreateEvent"
                           THEN on_create(message.mint)
                           ELSE on_buy(message.mint, parsed'.amount,
                                       parsed'.max_sol_cost,
                                       IF version = "V0"
                                       THEN token_price_v0(message.mint)
                                       ELSE token_price_legacy(message.mint),
                                       message.slot)
                        /\ last' = Handled(parsed', message.mint)
                        /\ message' = message
        /\ UNCHANGED <<auto_trader, now, cache_vars, faults, trader_vars, exec, startup>>

\* the match of process_entries on VersionedMessage (processor/mod.rs:40-52)
scan_instruction ==
    /\ message # NoMessage
    /\ scan_instruction_as(message.version)

\* the end of the instructions of a message: Ok(()) at processor/mod.rs:203
end_message ==
    /\ ~Panicked
    /\ message # NoMessage
    /\ message' = NoMessage
    /\ UNCHANGED <<token_reserves, auto_trader, tasks, decoded, last, data,
                   parsed>>
    /\ UNCHANGED <<now, cache_vars, faults, trader_vars, exec, startup>>

ScanNext ==
    \/ set_auto_trader
    \/ scan_transaction
    \/ scan_instruction
    \/ end_message

\* the scan of the stream from the bytes of its transactions
SpecScan == LedgerInit /\ [][ScanNext]_vars

\* task i carries a price whose token amount snipe_token_amount tabulates
\* (or one that snipe_token refuses)
AmountTabulated(i) ==
    /\ i \in DOMAIN tasks
    /\ tasks[i].pc = "decided"
    /\ \/ tasks[i].token_price.class # "positive"
       \/ tasks[i].token_price \in StorePrices

\* the scan and the snipe tasks it launches, interleaved at every await of a
\* task; a task whose token amount is not tabulated stays before snipe_token
IngestNext ==
    \/ set_auto_trader
    \/ begin_message
    \/ skip_message
    \/ process_message_v0
    \/ process_message_legacy
    \/ \E i \in 1..MaxTasks : task_should_snipe(i)
    \/ \E i \in 1..MaxTasks : AmountTabulated(i) /\ task_snipe_token(i)
    \/ \E i \in 1..MaxTasks : task_pump_buy(i)
    \/ \E i \in 1..MaxTasks : task_store_mint_with_amount(i)
    \/ \E i \in 1..MaxTasks : cache_check(TaskId(i))
    \/ \E i \in 1..MaxTasks : cache_fetch_ok(TaskId(i))
    \/ \E i \in 1..MaxTasks : cache_fetch_err(TaskId(i))

SpecIngest == LedgerInit /\ [][IngestNext]_vars

(***************************************************************************)
(* The trade executor: pump_buy and pump_sell (transaction/mod.rs)         *)
(***************************************************************************)
\* the arguments of the calls followed: the operation, the mint, the token
\* amount, max_sol_cost or min_sol_receive, and the caller's blockhash
ExecCalls ==
    { [op |-> op, mint |-> mint, token_amount |-> amount, limit |-> limit,
       cached_blockhash |-> cached] :
        op \in {"pump_buy", "pump_sell"}, mint \in Mints,
        amount \in {FallbackAmount, InitialPriceAmount},
        limit \in {U64Zero, DefaultBuyAmount},
        cached \in {NoBlockhash} \cup
                   { [some |-> TRUE, hash |-> LatestBlockhash(t), timestamp |-> t] :
                       t \in 0..MaxTime } }

\* what the RPC node returns for a submitted transaction: its signature
Signature(transaction) == [signed |-> transaction]

\* Signature::to_string: the base58 text of the signature
signature_to_string(signature) == <<"base58", signature>>

\* a mutant of resolve_blockhash: the blockhash is always fetched
resolve_blockhash_fresh(cached, fetched) ==
    [hash |-> fetched, fetches |-> 1]

\* `if let Some(hash) = cached_blockhash { hash } else { rpc_client
\* .get_latest_blockhash_with_commitment(..).await.unwrap().0 }`: the hash
\* that signs the transaction and the number of fetches made for it
resolve_blockhash(cached, fetched) ==
    IF cached.some
    THEN [hash |-> cached.hash, fetches |-> 0]
    ELSE [hash |-> fetched, fetches |-> 1]

\* the blockhash of the transaction is resolved; a fetch that fails panics
\* in `.unwrap()`
pump_blockhash ==
    /\ exec.pc = "blockhash"
    /\ \E outcome \in {"ok"} \cup
                      (IF faults < MaxFaults /\ ~exec.call.cached_blockhash.some
                       THEN {"err"} ELSE {}) :
          LET resolved == resolve_blockhash(exec.call.cached_blockhash,
                                            LatestBlockhash(now))
          IN  /\ exec' = IF outcome = "ok"
                         THEN [exec EXCEPT !.pc = "send",
                                           !.blockhash = resolved.hash,
                                           !.fetches = resolved.fetches,
                                           !.fetched_at = now]
                         ELSE [exec EXCEPT !.pc = "panicked", !.fetches = 1,
                                           !.fetched_at = now]
              /\ faults' = IF outcome = "ok" THEN faults ELSE faults + 1
    /\ UNCHANGED <<token_reserves, auto_trader, message, tasks, decoded, last,
                   data, parsed, startup, now, cache_vars, trader_vars>>

\* a mutant of send_rejected: the transaction is submitted again
send_rejected_retry(call) == [call EXCEPT !.pc = "send"]

\* the Err arm of send_transaction_with_config: Err(Error) is returned
send_rejected(call) ==
    [call EXCEPT !.pc = "returned", !.result = [ok |-> FALSE]]

\* the Ok arm: Ok(signature.to_string()) is returned
send_accepted(call) ==
    [call EXCEPT
       !.pc = "returned",
       !.result = [ok |-> TRUE,
                   value |-> signature_to_string(
                               Signature([call |-> call.call,
                                          blockhash |-> call.blockhash]))]]

\* send_transaction_with_config with max_retries 0: one submission, which
\* the node accepts or rejects
pump_send ==
    /\ exec.pc = "send"
    /\ \E outcome \in {"accepted"} \cup
                      (IF faults < MaxFaults THEN {"rejected"} ELSE {}) :
          LET sent == [exec EXCEPT !.submissions = @ + 1,
                                   !.outcomes = Append(@, outcome)]
          IN  /\ exec' = IF outcome = "accepted" THEN send_accepted(sent)
                         ELSE send_rejected(sent)
              /\ faults' = IF outcome = "accepted" THEN faults ELSE faults + 1
    /\ UNCHANGED <<token_reserves, auto_trader, message, tasks, decoded, last,
                   data, parsed, startup, now, cache_vars, trader_vars>>

ExecInit ==
    /\ token_reserves = <<>>
    /\ auto_trader = FALSE
    /\ message = NoMessage
    /\ tasks = <<>>
    /\ decoded = 0
    /\ last = NoInstruction
    /\ data = <<>>
    /\ parsed = NoParse
    /\ exec \in { [pc |-> "blockhash", call |-> c, blockhash |-> NoBlockhash,
                   fetches |-> 0, fetched_at |-> 0, submissions |-> 0,
                   outcomes |-> <<>>, result |-> [ok |-> FALSE]] :
                    c \in ExecCalls }
    /\ startup = NoStartup
    /\ CacheInit
    /\ TraderInit({MainPriceRange})

ExecNext ==
    \/ tick
    \/ pump_blockhash
    \/ pump_send

\* one call of pump_buy or pump_sell, made at any time
SpecExec == ExecInit /\ [][ExecNext]_vars

(***************************************************************************)
(* Startup: main (main.rs) and Config::new (config/mod.rs)                 *)
(***************************************************************************)
\* the environment of the process: each setting unset or set, the private
\* key set to a text that is a base58 keypair or to one that is not
Environments ==
    { [SERVER_URL |-> server, PRIVATE_KEY |-> key, REDIS_URL |-> redis,
       RPC_URL |-> rpc] :
        server \in {"unset", "set"}, key \in {"unset", "invalid", "valid"},
        redis \in {"unset", "set"}, rpc \in {"unset", "set"} }

\* Keypair::from_base58_string: it unwraps the decoding and panics on a
\* text that is not a keypair
Keypair_from_base58_string(key) ==
    IF key = "valid" THEN [kind |-> "Ok"] ELSE [kind |-> "panic"]

\* Config::new: `env::var("SERVER_URL").expect(..)`
main_config ==
    /\ startup.pc = "config"
    /\ startup' = [startup EXCEPT !.pc = IF startup.env.SERVER_URL = "unset"
                                         THEN "panicked" ELSE "client"]
    /\ UNCHANGED <<token_reserves, auto_trader, message, tasks, decoded, last,
                   data, parsed, exec, now, cache_vars, faults, trader_vars>>

\* ShredstreamClient::new: Ok, or Err and main returns
main_client ==
    /\ startup.pc = "client"
    /\ \E outcome \in {"ok"} \cup (IF faults < MaxFaults THEN {"err"} ELSE {}) :
          /\ startup' = [startup EXCEPT !.pc = IF outcome = "ok"
                                               THEN "private_key" ELSE "returned"]
          /\ faults' = IF outcome = "ok" THEN faults ELSE faults + 1
    /\ UNCHANGED <<token_reserves, auto_trader, message, tasks, decoded, last,
                   data, parsed, exec, now, cache_vars, trader_vars>>

\* `match env::var("PRIVATE_KEY") { Ok(key) => key, Err(_) => return }`: the
\* text is kept as it is
main_private_key ==
    /\ startup.pc = "private_key"
    /\ startup' = [startup EXCEPT !.pc = IF startup.env.PRIVATE_KEY = "unset"
                                         THEN "returned" ELSE "redis"]
    /\ UNCHANGED <<token_reserves, auto_trader, message, tasks, decoded, last,
                   data, parsed, exec, now, cache_vars, faults, trader_vars>>

\* RedisClient::new: Ok, or Err and main returns
main_redis ==
    /\ startup.pc = "redis"
    /\ \E outcome \in {"ok"} \cup (IF faults < MaxFaults THEN {"err"} ELSE {}) :
          /\ startup' = [startup EXCEPT !.pc = IF outcome = "ok"
                                               THEN "trader" ELSE "returned"]
          /\ faults' = IF outcome = "ok" THEN faults ELSE faults + 1
    /\ UNCHANGED <<token_reserves, auto_trader, message, tasks, decoded, last,
                   data, parsed, exec, now, cache_vars, trader_vars>>

\* AutoTrader::new with the private key text, the setters, trader.start()
\* (the sell poller is spawned) and processor.set_auto_trader
main_start ==
    /\ startup.pc = "trader"
    /\ startup' = [startup EXCEPT !.pc = "subscribe", !.poller = TRUE]
    /\ auto_trader' = TRUE
    /\ UNCHANGED <<token_reserves, message, tasks, decoded, last, data, parsed,
                   exec, now, cache_vars, faults, trader_vars>>

\* `client.subscribe_entries().await`: Ok and the entries are processed, or
\* Err and the loop tries again after 5 s
main_subscribe ==
    /\ startup.pc = "subscribe"
    /\ \E outcome \in {"ok"} \cup (IF faults < MaxFaults THEN {"err"} ELSE {}) :
          /\ startup' = IF outcome = "ok"
                        THEN [startup EXCEPT !.pc = "streaming",
                                             !.subscribed = TRUE]
                        ELSE startup
          /\ faults' = IF outcome = "ok" THEN faults ELSE faults + 1
    /\ UNCHANGED <<token_reserves, auto_trader, message, tasks, decoded, last,
                   data, parsed, exec, now, cache_vars, trader_vars>>

\* the first pump_buy or pump_sell of the running process builds the signer
\* from the private key text: a panic ends the task that made the call
main_trade ==
    /\ startup.pc = "streaming"
    /\ startup.signer = "none"
    /\ startup' = [startup EXCEPT !.signer =
                     Keypair_from_base58_string(startup.env.PRIVATE_KEY).kind]
    /\ UNCHANGED <<token_reserves, auto_trader, message, tasks, decoded, last,
                   data, parsed, exec, now, cache_vars, faults, trader_vars>>

StartupInit ==
    /\ token_reserves = <<>>
    /\ auto_trader = FALSE
    /\ message = NoMessage
    /\ tasks = <<>>
    /\ decoded = 0
    /\ last = NoInstruction
    /\ data = <<>>
    /\ parsed = NoParse
    /\ exec = NoExec
    /\ startup \in { [pc |-> "config", env |-> env, poller |-> FALSE,
                      subscribed |-> FALSE, signer |-> "none"] :
                       env \in Environments }
    /\ CacheInit
    /\ TraderInit({MainPriceRange})

StartupNext ==
    \/ tick
    \/ main_config
    \/ main_client
    \/ main_private_key
    \/ main_redis
    \/ main_start
    \/ main_subscribe
    \/ main_trade

\* main from its first line to the first trade, in every environment
SpecStartup == StartupInit /\ [][StartupNext]_vars

(***************************************************************************)
(* The three locks: the AutoTrader mutex, the blockhash-cache mutex and    *)
(* the store connection mutex (utils/redis.rs `self.connection.lock()`)    *)
(***************************************************************************)
\* the positions in which the poller holds the connection lock
PollerLocked ==
    ("claim" :> "claiming") @@ ("remove" :> "removing") @@ ("lookup" :> "looking")

\* who holds the connection lock: a task inside store_mint_with_amount, the
\* poller inside get_mints_to_sell, the ZREM loop or get_mint_amount
ConnHolders ==
    { TaskId(i) : i \in { j \in DOMAIN tasks : tasks[j].pc = "storing" } }
        \cup (IF poller.pc \in Range(PollerLocked) THEN {PollerId} ELSE {})

\* `self.connection.lock().await` in store_mint_with_amount
conn_lock_task(i) ==
    /\ i \in DOMAIN tasks
    /\ tasks[i].pc = "store"
    /\ ConnHolders = {}
    /\ tasks' = [tasks EXCEPT ![i].pc = "storing"]
    /\ UNCHANGED <<processor_vars, now, cache_vars, faults, trader_vars>>

\* `self.connection.lock().await` in get_mints_to_sell, in
\* get_and_remove_mints_to_sell and in get_mint_amount
conn_lock_poller ==
    /\ poller.pc \in DOMAIN PollerLocked
    /\ poller.pc = "lookup" => calls[PollerId].st = "returned"
    /\ ConnHolders = {}
    /\ poller' = [poller EXCEPT !.pc = PollerLocked[poller.pc]]
    /\ UNCHANGED <<processor_vars, tasks, now, cache_vars, faults, trader,
                   trader_lock, store_vars>>

\* the clock advances while a sell scheduled now is due within MaxTime
tick_schedulable ==
    /\ now + trader.sell_delay_ms < MaxTime
    /\ tick

LocksNext ==
    \/ tick_schedulable
    \/ spawn_snipe({"MintA"}, StoreSolAmounts, {DefaultTokenPrice})
    \/ \E i \in 1..MaxTasks : task_should_snipe(i)
    \/ \E i \in 1..MaxTasks : task_snipe_token(i)
    \/ \E i \in 1..MaxTasks : task_pump_buy(i)
    \/ \E i \in 1..MaxTasks : conn_lock_task(i)
    \/ \E i \in 1..MaxTasks : task_store_at(i, "storing")
    \/ \E p \in Procs : cache_check(p)
    \/ \E p \in Procs : cache_fetch_ok(p)
    \/ \E p \in Procs : cache_fetch_err(p)
    \/ conn_lock_poller
    \/ poller_get_mints_at("claiming")
    \/ poller_remove_at("removing")
    \/ poller_get_mint_amount_at("looking")
    \/ poller_pump_sell
    \/ poller_sleep

\* a step of snipe task i, its lock requests included
TaskStepOf(i) ==
    \/ task_should_snipe(i)
    \/ task_snipe_token(i)
    \/ task_pump_buy(i)
    \/ conn_lock_task(i)
    \/ task_store_at(i, "storing")
    \/ cache_check(TaskId(i))
    \/ cache_fetch_ok(TaskId(i))

\* a step of the sell task, its lock requests included
PollerLockStep ==
    \/ conn_lock_poller
    \/ poller_get_mints_at("claiming")
    \/ poller_remove_at("removing")
    \/ poller_get_mint_amount_at("looking")
    \/ poller_pump_sell
    \/ poller_sleep
    \/ cache_check(PollerId)
    \/ cache_fetch_ok(PollerId)

\* tokio's Mutex grants the lock in the order of the requests, so a task
\* whose lock is free again and again gets it; the runtime runs every task
\* that can run, and network calls return
LocksFairness ==
    /\ \A i \in 1..MaxTasks : SF_vars(TaskStepOf(i))
    /\ WF_vars(PollerLockStep)

\* the snipes of one token and the poller, every lock request a step
SpecLocks == StoreInit /\ [][LocksNext]_vars /\ LocksFairness

(***************************************************************************)
(* Claims about the reserve ledger                                         *)
(***************************************************************************)
\* the last instruction was a Buy for a mint that had reserve state
BuyApplied ==
    /\ last.op = "Buy"
    /\ last.mint \in DOMAIN last.before

OldReserves == last.before[last.mint]

NewReserves == token_reserves[last.mint]

\* the task launched by the last instruction
LaunchedTask == tasks[Len(tasks)]

TaskLaunched == Len(tasks) = last.tasks_before + 1

\* C1: in every step of the scan, for every tracked mint, virtual_sol_reserves
\* does not decrease, virtual_token_reserves does not increase, the mint stays
\* tracked, and both reserves stay u64 values (0..2^64-1).
C1_ReservesMonotone ==
    [][\A m \in DOMAIN token_reserves :
          /\ m \in DOMAIN token_reserves'
          /\ U64Leq(token_reserves[m].virtual_sol_reserves,
                    token_reserves'[m].virtual_sol_reserves)
          /\ U64Leq(token_reserves'[m].virtual_token_reserves,
                    token_reserves[m].virtual_token_reserves)
          /\ IsU64(token_reserves'[m].virtual_sol_reserves)
          /\ IsU64(token_reserves'[m].virtual_token_reserves)]_vars

\* C1 witness: a buy whose token_amount exceeds the remaining token reserve and
\* whose sol_amount overflows the sol reserve has been applied to a tracked mint
C1_Witness ==
    /\ BuyApplied
    /\ U64Lt(OldReserves.virtual_token_reserves, last.token_amount)
    /\ U64AddCarry(OldReserves.virtual_sol_reserves, last.sol_amount).carry = 1

\* C2 (as claimed): after a Buy for a tracked mint the token reserve is
\* max(0, old - token_amount) and the sol reserve is min(2^64-1, old + sol_amount).
C2_SaturatingUpdate ==
    BuyApplied =>
        /\ NewReserves.virtual_token_reserves =
              IF U64Leq(last.token_amount, OldReserves.virtual_token_reserves)
              THEN U64SubBorrow(OldReserves.virtual_token_reserves,
                                last.token_amount).val
              ELSE U64Zero
        /\ NewReserves.virtual_sol_reserves =
              IF U64AddCarry(OldReserves.virtual_sol_reserves,
                             last.sol_amount).carry = 1
              THEN U64Max
              ELSE U64AddCarry(OldReserves.virtual_sol_reserves,
                               last.sol_amount).val

\* the first buy applied to a mint after its Create, with a token_amount not
\* larger than the token reserve
FirstBuyAfterCreate ==
    /\ BuyApplied
    /\ OldReserves = [virtual_sol_reserves   |-> U64Dec(<<30, 0, 0, 0>>),
                      virtual_token_reserves |-> U64Dec(<<1, 73, 0, 0, 0, 0>>)]
    /\ U64Leq(last.token_amount, OldReserves.virtual_token_reserves)

EndToEndBuy ==
    /\ last.token_amount = U64Dec(<<1, 0, 0>>)
    /\ last.sol_amount = U64Dec(<<2, 0, 0, 0>>)

PriceBeforeFirstBuy ==
    TaskLaunched =>
        LaunchedTask.token_price =
            F64Quotient(U64Dec(<<30, 0, 0, 0>>), U64Dec(<<1, 73, 0, 0, 0, 0>>))

\* C3 (as claimed): after Create and a Buy of a for s, sol = 30_000_000_000 + s
\* and token = 1_073_000_000_000_000 - a; a = 1_000_000, s = 2_000_000_000 gives
\* sol = 32_000_000_000 and token = 1_072_999_000_000_000; the task's price is
\* the one of the initial reserves.
C3_Original ==
    FirstBuyAfterCreate =>
        /\ U64AddCarry(U64Dec(<<30, 0, 0, 0>>), last.sol_amount).carry = 0
        /\ NewReserves.virtual_sol_reserves =
              U64AddCarry(U64Dec(<<30, 0, 0, 0>>), last.sol_amount).val
        /\ NewReserves.virtual_token_reserves =
              U64SubBorrow(U64Dec(<<1, 73, 0, 0, 0, 0>>), last.token_amount).val
        /\ EndToEndBuy =>
              /\ NewReserves.virtual_sol_reserves = U64Dec(<<32, 0, 0, 0>>)
              /\ NewReserves.virtual_token_reserves = U64Dec(<<1, 72, 999, 0, 0, 0>>)
        /\ PriceBeforeFirstBuy

\* C3 (amended): after Create and a Buy of a for s with a not larger than the
\* token reserve, sol = min(2^64-1, 30_000_000_000 + s) and
\* token = 1_073_000_000_000_000 - a; a = 1_000_000, s = 2_000_000_000 gives
\* sol = 32_000_000_000 and token = 1_072_999_999_000_000; the price handed to
\* the snipe task is the one of 30_000_000_000 / 1_073_000_000_000_000.
C3_EndToEnd ==
    FirstBuyAfterCreate =>
        /\ NewReserves.virtual_sol_reserves =
              IF U64AddCarry(U64Dec(<<30, 0, 0, 0>>), last.sol_amount).carry = 1
              THEN U64Max
              ELSE U64AddCarry(U64Dec(<<30, 0, 0, 0>>), last.sol_amount).val
        /\ NewReserves.virtual_token_reserves =
              U64SubBorrow(U64Dec(<<1, 73, 0, 0, 0, 0>>), last.token_amount).val
        /\ EndToEndBuy =>
              /\ NewReserves.virtual_sol_reserves = U64Dec(<<32, 0, 0, 0>>)
              /\ NewReserves.virtual_token_reserves =
                    U64Dec(<<1, 72, 999, 999, 0, 0>>)
        /\ PriceBeforeFirstBuy

\* C3 witness: the end-to-end buy has been applied right after the Create and
\* its snipe task has been launched
C3_Witness ==
    /\ FirstBuyAfterCreate
    /\ EndToEndBuy
    /\ TaskLaunched

\* C4: for every mint that has reserve state (it received a Create), whenever
\* virtual_token_reserves > 0 the price computed from the reserves is strictly
\* positive, by the V0 path and by the legacy path.
C4_PricePositive ==
    \A m \in DOMAIN token_reserves :
        token_reserves[m].virtual_token_reserves # U64Zero =>
            /\ token_price_v0(m).class = "positive"
            /\ token_price_legacy(m).class = "positive"

\* C4 witness: a buy has lowered a tracked mint's token reserve, which is
\* still positive
C4_Witness ==
    /\ BuyApplied
    /\ NewReserves.virtual_token_reserves # U64Zero
    /\ U64Lt(NewReserves.virtual_token_reserves,
             OldReserves.virtual_token_reserves)

(***************************************************************************)
(* Claims about the snipe decision and the delayed-sell store              *)
(***************************************************************************)
\* min <= x <= max by subtraction: neither x - min nor max - x borrows
WithinRange(min, x, max) ==
    /\ U64SubBorrow(x, min).borrow = 0
    /\ U64SubBorrow(max, x).borrow = 0

\* task i takes its decision in this step
Decides(i) == tasks[i].pc = "spawned" /\ tasks'[i].pc # "spawned"

\* C5: should_snipe(x) returns true exactly when min_sol_price <= x <=
\* max_sol_price, inclusive at both ends, for every x and every configured
\* (min, max); it is false for min - 1 and for max + 1; and the decision
\* changes no state (the task moves on, nothing else changes).
C5_ShouldSnipeInclusive ==
    [][\A i \in DOMAIN tasks :
          Decides(i) =>
             LET x == tasks[i].sol_amount
             IN  /\ tasks'[i].pc \in {"decided", "declined"}
                 /\ tasks'[i].pc = "decided" <=>
                       WithinRange(trader.min_sol_price, x, trader.max_sol_price)
                 /\ (x = trader.min_sol_price \/ x = trader.max_sol_price)
                       /\ U64SubBorrow(trader.max_sol_price,
                                       trader.min_sol_price).borrow = 0
                       => tasks'[i].pc = "decided"
                 /\ (/\ U64AddCarry(x, U64One).carry = 0
                     /\ U64AddCarry(x, U64One).val = trader.min_sol_price)
                       => tasks'[i].pc = "declined"
                 /\ (/\ U64AddCarry(trader.max_sol_price, U64One).carry = 0
                     /\ U64AddCarry(trader.max_sol_price, U64One).val = x)
                       => tasks'[i].pc = "declined"
                 /\ tasks' = [tasks EXCEPT ![i].pc = tasks'[i].pc]
                 /\ UNCHANGED <<processor_vars, now, cache_vars, faults,
                                trader_vars>>
      ]_vars

\* C5 witness: with min < max, a buy of exactly max_sol_price was accepted
\* and a buy of max_sol_price + 1 was declined
C5_Witness ==
    \E i, j \in DOMAIN tasks :
        /\ trader.min_sol_price # trader.max_sol_price
        /\ tasks[i].pc = "decided"
        /\ tasks[i].sol_amount = trader.max_sol_price
        /\ tasks[j].pc = "declined"
        /\ U64AddCarry(trader.max_sol_price, U64One).carry = 0
        /\ tasks[j].sol_amount = U64AddCarry(trader.max_sol_price, U64One).val

\* get_and_remove_mints_to_sell has returned Ok with a batch
ClaimReturned == poller.pc \in {"lookup", "sell"}

\* the mints of the batch a claim returned
ReturnedMints == Members(poller.mints)

\* no claim returns a token before the delay of its schedule has elapsed
C6_NeverEarly ==
    ClaimReturned =>
       \A m \in DOMAIN poller.claimed :
           poller.claimed[m].due <= poller.returned_at

\* a claim returns a token only for a schedule no claim has returned yet
C6_NoDuplicate == ClaimReturned => ReturnedMints \subseteq DOMAIN poller.claimed

\* the amount obtained for a returned token is the scheduled one
C6_Amount ==
    poller.pc = "sell" =>
       LET m == poller.mints[poller.idx]
       IN  m \in DOMAIN poller.claimed =>
              poller.amount = poller.claimed[m].amount

\* a schedule that no claim has returned is in the due-time index
C6_Pending ==
    \A m \in DOMAIN sched :
        /\ m \in DOMAIN mints_to_sell
        /\ mints_to_sell[m] = sched[m].due

\* C6: after schedule(token, amount, delay), a claim made before the delay
\* has elapsed does not return the token; a claim made after it returns
\* exactly (token, amount) once; a second claim returns nothing for it.
\* Stated for runs in which no operation fails.
C6_SchedulerExact ==
    faults = 0 =>
       /\ C6_NeverEarly
       /\ C6_NoDuplicate
       /\ C6_Amount
       /\ C6_Pending

\* a successful claim returns in this step
ClaimReturns == poller.pc = "remove" /\ poller'.pc = "lookup"

\* the returned tokens leave the due-time index, and every entry not
\* returned is as it was in the index and in the amount records
ClaimTouchesBatchOnly ==
    /\ poller'.mints = poller.read
    /\ \A m \in Members(poller.read) : m \notin DOMAIN mints_to_sell'
    /\ \A m \in DOMAIN mints_to_sell \ Members(poller.read) :
          /\ m \in DOMAIN mints_to_sell'
          /\ mints_to_sell'[m] = mints_to_sell[m]
    /\ \A m \in DOMAIN mint_amounts \ Members(poller.read) :
          /\ m \in DOMAIN mint_amounts'
          /\ mint_amounts'[m] = mint_amounts[m]

C8_ClaimAtomic ==
    poller.pc = "remove" =>
       \A m \in Members(poller.read) :
           /\ m \in DOMAIN mints_to_sell
           /\ mints_to_sell[m] = poller.read_scores[m]

\* C9: every sell scheduled after a successful buy eventually leads to a
\* pump_sell call for that token by the poller, also when one store
\* operation or one submission fails.
C9_AtLeastOnce == \A m \in Mints : (m \in owed) ~> (m \notin owed)

(***************************************************************************)
(* Claims about the blockhash cache                                        *)
(***************************************************************************)
Returned(p) == calls[p].st = "returned"

\* the age of the anchor a call saw when it checked the cache
SeenAge(p) == calls[p].checked_at - calls[p].seen.timestamp

\* C10: a call that finds a cached anchor whose age is below the TTL returns
\* that very anchor and makes no fetch (so two calls within the TTL of one
\* fetch return the identical anchor with exactly one fetch in total); a call
\* that finds no anchor, or one whose age is not below the TTL, makes exactly
\* one fetch; and no call returns a cached anchor whose age is not below the TTL.
C10_CacheFreshness ==
    /\ \A p \in Procs :
          Returned(p) =>
             /\ calls[p].hit <=> (calls[p].seen.some /\ SeenAge(p) < MaxAge)
             /\ calls[p].hit =>
                   /\ calls[p].ok
                   /\ calls[p].result = calls[p].seen.hash
                   /\ calls[p].fetches = 0
             /\ ~calls[p].hit => calls[p].fetches = 1
    /\ \A p, q \in Procs :
          (/\ Returned(p) /\ Returned(q)
           /\ ~calls[p].hit /\ calls[p].ok
           /\ calls[q].seen = calls[p].stored
           /\ calls[q].checked_at - calls[p].stored.timestamp < MaxAge)
          => /\ calls[q].result = calls[p].result
             /\ calls[p].fetches + calls[q].fetches = 1

\* C10 witness: one call fetched, a second call within the TTL returned the
\* anchor the first one stored, and a third call, made once that anchor's age
\* had reached the TTL, fetched again
C10_Witness ==
    \E p, q, r \in Procs :
        /\ Returned(p) /\ Returned(q) /\ Returned(r)
        /\ ~calls[p].hit /\ calls[p].ok
        /\ calls[q].hit /\ calls[q].seen = calls[p].stored
        /\ calls[q].checked_at > calls[p].stored.timestamp
        /\ ~calls[r].hit /\ calls[r].seen = calls[p].stored
        /\ calls[r].checked_at - calls[p].stored.timestamp = MaxAge

\* of callers that all called before any of them got the lock: p fetched,
\* and q made the next check of the cache (it saw what p left)
ServedAfter(p, q) ==
    /\ p # q
    /\ Returned(p) /\ calls[p].fetches = 1
    /\ Returned(q)
    /\ calls[q].seen = calls[p].stored
    /\ calls[q].checked_at >= calls[p].checked_at

\* the check and the fetch happen under one lock: at most one caller is
\* fetching, it holds the lock, it saw no fresh anchor, and the cache is
\* still what it saw
FetchUnderLock ==
    \A p \in Procs :
        calls[p].st = "fetching" =>
           /\ cache_lock = p
           /\ \A q \in Procs \ {p} : calls[q].st # "fetching"
           /\ ~CacheIsFresh(calls[p].seen, calls[p].checked_at)
           /\ cached_blockhash = calls[p].seen

\* C11 as stated: of the callers that meet on an empty or expired cache
\* exactly one performs the fetch, and the others return the value it stored.
C11_Original ==
    /\ FetchUnderLock
    /\ \A p, q \in Procs :
          (/\ ServedAfter(p, q)
           /\ calls[p].ok =>
                 calls[q].checked_at - calls[p].stored.timestamp < MaxAge)
          => /\ calls[q].fetches = 0
             /\ calls[q].result = calls[p].result

\* C11: the check and the fetch happen under the same lock, so concurrent
\* callers serialize; when the fetch of the caller holding the lock
\* succeeds, every caller that waited behind it and checks the cache within
\* the TTL of the stored anchor returns that anchor without a fetch. When
\* that fetch fails nothing is stored and the next caller fetches again.
C11_SingleFetch ==
    /\ FetchUnderLock
    /\ \A p, q \in Procs :
          ServedAfter(p, q) =>
             IF calls[p].ok /\ calls[q].checked_at - calls[p].stored.timestamp < MaxAge
             THEN /\ calls[q].fetches = 0
                  /\ calls[q].result = calls[p].result
             ELSE /\ calls[q].fetches = 1
                  /\ ~calls[p].ok => calls[p].stored = calls[p].seen

\* C11 witness: two callers waited while a third fetched on an empty cache,
\* and both returned the anchor it stored without fetching
C11_Witness ==
    \E p, q, r \in Procs :
        /\ q # r
        /\ ServedAfter(p, q) /\ ServedAfter(p, r)
        /\ calls[p].ok /\ ~calls[p].seen.some
        /\ calls[q].hit /\ calls[r].hit
        /\ calls[q].result = calls[p].result
        /\ calls[r].result = calls[p].result

(***************************************************************************)
(* Claims about the decoder                                                *)
(***************************************************************************)
\* parse_instruction_data has been applied to the payload
Decoded == parsed # NoParse

\* C12: decode round trip. The create discriminator followed by the three
\* length-prefixed strings and the 32 creator bytes decodes to a CreateEvent
\* with exactly that name, symbol, uri and creator; the buy discriminator
\* followed by two little-endian u64 decodes to a Buy with exactly that
\* amount and max_sol_cost.
C12_DecodeRoundTrip ==
    Decoded =>
        /\ \A f \in CreateFields :
              data = CreatePayload(f.name, f.symbol, f.uri, f.user)
                  => parsed = OkCreate(f.name, f.symbol, f.uri, f.user)
        /\ \A f \in BuyFields :
              data = BuyPayload(f.amount, f.max_sol_cost)
                  => parsed = OkBuy(f.amount, f.max_sol_cost)

\* a create payload with a 22-byte uri has been decoded
C12_Witness ==
    /\ Decoded
    /\ parsed.kind = "Ok"
    /\ data \in ValidCreatePayloads
    /\ Len(parsed.uri) = 22
    /\ parsed.user \in PayloadUsers

\* the strictly shorter prefixes of the valid payloads
TruncatedPayloads ==
    UNION { Prefixes(p) \ {p} : p \in ValidPayloads }

\* C13: truncation safety. Every strictly shorter prefix of a valid create or
\* buy payload, the one that ends exactly after the uri included, makes
\* parse_instruction_data return an error; it never panics and never returns
\* Ok.
C13_TruncationSafety ==
    (Decoded /\ data \in TruncatedPayloads) => parsed.kind = "Err"

\* the structured decode of a create payload succeeded
StructuredCreate ==
    /\ Len(data) >= 8
    /\ Slice(data, 0, 8) = CREATE_EVENT_DISCRIMINATOR
    /\ CreateArgs_try_from_slice(Slice(data, 8, Len(data))).ok

\* where the uri field of a create payload ends
FieldsEnd == ManualStrings(data).offset

\* C15: when the structured decode of a create payload succeeds, the creator
\* is the last 32 bytes of the payload only if they lie entirely after the
\* name, symbol and uri fields, and the zero identifier otherwise.
C15_CreatorAfterFields ==
    (Decoded /\ StructuredCreate /\ parsed.kind = "Ok") =>
        parsed.user = IF Len(data) - PubkeyLen >= FieldsEnd
                      THEN Slice(data, Len(data) - PubkeyLen, Len(data))
                      ELSE PubkeyDefault

\* C16: a payload shorter than 8 bytes fails at once, whatever its first
\* byte; a payload of 8 bytes or more whose first 8 bytes are neither
\* discriminator and whose first byte is neither 24 nor 102 fails with
\* "Unknown instruction data".
C16_ShortAndUnknown ==
    Decoded =>
        /\ Len(data) < 8 => parsed = Err("Instruction data too short")
        /\ ( /\ Len(data) >= 8
             /\ Slice(data, 0, 8) # CREATE_EVENT_DISCRIMINATOR
             /\ Slice(data, 0, 8) # BUY_EVENT_DISCRIMINATOR
             /\ data[1] \notin {24, 102} )
              => parsed = Err("Unknown instruction data")

\* a 24-byte payload that starts with 25 has been refused as unknown
C16_Witness ==
    /\ Decoded
    /\ Len(data) = 24
    /\ data[1] = 25
    /\ parsed = Err("Unknown instruction data")

(***************************************************************************)
(* Claims about the scan                                                   *)
(***************************************************************************)
\* C14: no operation panics on malformed input. parse_instruction_data
\* returns Ok or Err for every payload, a create payload below 32 bytes whose
\* structured decode succeeds included, and process_entries returns for every
\* transaction, one with fewer than three accounts, without a signature or
\* with a program_id_index outside its account list included.
C14_NoPanic == ~Panicked /\ parsed.kind # "panic"

\* the price of a mint as the buy path reads it from the ledger
LedgerPrice(mint) ==
    IF mint \in DOMAIN token_reserves
    THEN F64Quotient(token_reserves[mint].virtual_sol_reserves,
                     token_reserves[mint].virtual_token_reserves)
    ELSE DefaultTokenPrice

\* C17: in the buy path the price is read from the reserves before the
\* update, the task is launched with a copy of it, and then the ledger is
\* updated: a task launched by a step carries the price of the reserves
\* before that step, and no later step of the scan changes what a launched
\* task carries.
C17_PriceBeforeBuy ==
    [][\A i \in DOMAIN tasks' :
          IF i \in DOMAIN tasks
          THEN tasks'[i] = tasks[i]
          ELSE /\ message # NoMessage
               /\ tasks'[i].mint = message.mint
               /\ tasks'[i].token_price = LedgerPrice(message.mint)]_vars

\* two buys of one tracked mint have launched a task each; the first task
\* still carries the price of before the first buy, which the second buy
\* no longer saw
C17_Witness ==
    /\ Len(tasks) >= 2
    /\ tasks[1].mint = tasks[2].mint
    /\ tasks[1].mint \in DOMAIN token_reserves
    /\ tasks[1].token_price = InitialPrice
    /\ tasks[2].token_price # tasks[1].token_price
    /\ LedgerPrice(tasks[1].mint) # tasks[2].token_price

\* C18: an instruction whose decode returns an error is skipped: the ledger
\* and the tasks are as before, the scan stays in the same transaction, and
\* the next instruction can be processed.
C18_DecodeErrorSkipped ==
    /\ [][(decoded' = decoded + 1 /\ last'.op = "skipped") =>
             /\ parsed'.kind = "Err"
             /\ token_reserves' = token_reserves
             /\ tasks' = tasks
             /\ message' # NoMessage
             /\ message'.account_keys = message.account_keys
             /\ message'.mint = message.mint]_vars
    /\ []((message # NoMessage /\ message.errors > 0
              /\ decoded < MaxInstructions) => ENABLED scan_instruction)

\* after an instruction of a transaction was skipped for a decode error, a
\* buy of the same transaction has been applied and has launched its task
C18_Witness ==
    /\ message # NoMessage
    /\ message.errors > 0
    /\ BuyApplied
    /\ TaskLaunched
    /\ NewReserves # OldReserves

(***************************************************************************)
(* Claims about the snipe tasks and the scan running together              *)
(***************************************************************************)
\* task i is inside snipe_token: anchor resolution, buy submission or sell
\* scheduling
Executing(i) ==
    /\ i \in DOMAIN tasks
    /\ tasks[i].pc \in {"blockhash", "store"}

\* C19: snipe tasks run in parallel. While one task is inside snipe_token
\* (anchor resolution, buy submission, sell scheduling), another task can
\* take its decision and can enter snipe_token: the first does not delay it.
C19_TasksParallel ==
    \A i \in DOMAIN tasks : \A j \in DOMAIN tasks \ {i} :
        Executing(i) =>
            /\ tasks[j].pc = "spawned" => ENABLED task_should_snipe(j)
            /\ tasks[j].pc = "decided" => ENABLED task_snipe_token(j)

\* a step of the scan
ScanStep ==
    \/ decoded' # decoded
    \/ message' # message
    \/ auto_trader' # auto_trader

\* C20: the scan is never stalled by a snipe task. A step of the scan takes
\* and releases no lock and touches neither the cache nor the store, and in
\* every state of the tasks the scan can apply the next Create or Buy of the
\* message it is in and can go on to the next message.
C20_ScanNeverStalled ==
    /\ [][ScanStep => UNCHANGED <<trader_lock, cache_vars, store_vars>>]_vars
    /\ []((message # NoMessage /\ decoded < MaxInstructions) =>
             /\ ENABLED ((process_message_v0 \/ process_message_legacy)
                           /\ last'.op = "Buy")
             /\ ENABLED ((process_message_v0 \/ process_message_legacy)
                           /\ last'.op = "CreateEvent")
             /\ ENABLED skip_message)
    /\ [](decoded < MaxInstructions => ENABLED begin_message)

\* a buy has been applied, and its task launched, while a snipe task was
\* inside snipe_token holding the AutoTrader lock
C20_Witness ==
    /\ BuyApplied
    /\ TaskLaunched
    /\ last.lock_before # NoProc
    /\ NewReserves # OldReserves

(***************************************************************************)
(* Claims about the sell poller and the trade executor                     *)
(***************************************************************************)
\* C21: after any network error in one iteration of the sell poller (store
\* failure, blockhash fetch failure in the cache and again inside pump_sell,
\* submission failure) the poller loop is still running and goes on to its
\* next iteration: it is never ended by a network error.
C21_PollerSurvives == poller.pc # "dead"

\* C22: pump_buy and pump_sell sign with the caller's blockhash when one is
\* given and then fetch none; when none is given they make exactly one
\* fetch before signing, and sign with what it returned.
C22_AnchorSource ==
    /\ exec.pc \in {"send", "returned"} =>
          IF exec.call.cached_blockhash.some
          THEN /\ exec.fetches = 0
               /\ exec.blockhash = exec.call.cached_blockhash.hash
          ELSE /\ exec.fetches = 1
               /\ exec.blockhash = LatestBlockhash(exec.fetched_at)
    /\ exec.pc = "panicked" =>
          ~exec.call.cached_blockhash.some /\ exec.fetches = 1

\* a call given a blockhash older than the node's latest has returned
C22_Witness ==
    /\ exec.pc = "returned"
    /\ exec.call.cached_blockhash.some
    /\ exec.call.cached_blockhash.hash # LatestBlockhash(now)
    /\ exec.blockhash = exec.call.cached_blockhash.hash

\* C23: a call of pump_buy or pump_sell submits its transaction at most
\* once; a rejected submission returns an error without another attempt,
\* an accepted one returns the text of the signature.
C23_SingleSubmission ==
    exec.pc # "none" =>
      /\ exec.submissions <= 1
      /\ exec.pc = "returned" =>
            /\ exec.submissions = 1
            /\ exec.outcomes \in {<<"accepted">>, <<"rejected">>}
            /\ exec.result.ok <=> exec.outcomes = <<"accepted">>
            /\ exec.result.ok =>
                  exec.result.value =
                    signature_to_string(
                      Signature([call |-> exec.call, blockhash |-> exec.blockhash]))

\* a call whose only submission was rejected has returned an error
C23_Witness ==
    /\ exec.pc = "returned"
    /\ exec.outcomes = <<"rejected">>
    /\ ~exec.result.ok

\* the index or the amount table of the durable store changes
StoreChanged ==
    mints_to_sell' # mints_to_sell \/ mint_amounts' # mint_amounts

\* C24: a pending sell is created only after a successful buy: the store
\* changes only in store_mint_with_amount of a snipe task whose pump_buy
\* returned a signature, for its mint, with the token amount it bought and
\* the configured sell delay; that task's buy passed should_snipe, its mint
\* string parsed and its price was above 0. A declined, refused or failed
\* snipe adds nothing.
C24_SellOnlyAfterBuy ==
    [][StoreChanged =>
         \E i \in DOMAIN tasks :
            /\ tasks[i].pc = "store"
            /\ tasks'[i] = TaskDone
            /\ tasks[i].buy = "ok"
            /\ should_snipe(tasks[i].sol_amount)
            /\ Pubkey_from_str(tasks[i].mint).ok
            /\ tasks[i].token_price.class \in {"positive", "infinite"}
            /\ tasks[i].token_amount = snipe_token_amount(tasks[i].token_price)
            /\ mints_to_sell' =
                  zadd(mints_to_sell, tasks[i].mint, now + trader.sell_delay_ms)
            /\ mint_amounts' \in
                  { mint_amounts,
                    hset(mint_amounts, tasks[i].mint,
                         to_string(tasks[i].token_amount)) }]_vars

\* a sell of MintA is pending with the amount bought at the initial price,
\* and another snipe was declined by should_snipe
C24_Witness ==
    /\ "MintA" \in DOMAIN mints_to_sell
    /\ "MintA" \in DOMAIN mint_amounts
    /\ mint_amounts["MintA"] = to_string(InitialPriceAmount)
    /\ DOMAIN mints_to_sell = {"MintA"}
    /\ \E i \in DOMAIN tasks : tasks[i].pc = "declined"

\* C25: for a non-empty batch the poller asks the blockhash cache once, and
\* every pump_sell of the batch gets that one answer (the hash, or None
\* when the cache failed) and a min_sol_receive of 0, one call at most per
\* token of the batch, in the batch's order; in an iteration with no batch
\* the cache is not asked and no sell is made.
C25_OneAnchorPerBatch ==
    /\ poller.asks = (IF poller.mints # <<>> THEN 1 ELSE 0)
    /\ poller.mints = <<>> => poller.sells = <<>> /\ calls[PollerId] = NoCall
    /\ Len(poller.sells) <= Len(poller.mints)
    /\ poller.sells # <<>> =>
          /\ calls[PollerId].st = "returned"
          /\ \A k \in DOMAIN poller.sells :
                /\ poller.sells[k].cached_blockhash =
                      blockhash_option(calls[PollerId])
                /\ poller.sells[k].min_sol_receive = U64Zero
                /\ poller.sells[k].mint \in Members(poller.mints)
          /\ \A j, k \in DOMAIN poller.sells :
                j < k => \E a, b \in DOMAIN poller.mints :
                            /\ a < b
                            /\ poller.mints[a] = poller.sells[j].mint
                            /\ poller.mints[b] = poller.sells[k].mint

\* both tokens of a batch have been sold with the hash of one cache answer
C25_Witness ==
    /\ Len(poller.mints) = 2
    /\ Len(poller.sells) = 2
    /\ poller.sells[1].cached_blockhash.some
    /\ poller.sells[1].mint # poller.sells[2].mint

(***************************************************************************)
(* Further claims about the scan and the reserve ledger                    *)
(***************************************************************************)
\* the step handles a Buy of a token that has no reserve state
BuyOfUntracked ==
    /\ decoded' = decoded + 1
    /\ last'.op = "Buy"
    /\ last'.mint \notin DOMAIN token_reserves

\* C26: a Buy of a token with no reserve state is not an error: the ledger
\* is left as it is, with a trader attached a snipe task is launched with
\* the price 0.000000033 (33 lamports per 1_000_000 token units) and the
\* buy's sol amount, and the message stays open for its next instruction.
C26_BuyWithoutReserves ==
    [][BuyOfUntracked =>
         /\ token_reserves' = token_reserves
         /\ message' = message
         /\ message.open
         /\ IF auto_trader
            THEN /\ Len(tasks') = Len(tasks) + 1
                 /\ SubSeq(tasks', 1, Len(tasks)) = tasks
                 /\ tasks'[Len(tasks')] =
                       [mint |-> last'.mint, sol_amount |-> last'.sol_amount,
                        token_price |-> [class |-> "positive",
                                         num |-> U64Dec(<<33>>),
                                         den |-> U64Dec(<<1, 0, 0>>)],
                        slot |-> message.slot, pc |-> "spawned"]
            ELSE tasks' = tasks]_vars

\* a Buy of a token without reserve state has launched a task at the
\* default price in a V0 message that is still open
C26_Witness ==
    /\ last.op = "Buy"
    /\ last.mint \notin DOMAIN last.before
    /\ last.mint \notin DOMAIN token_reserves
    /\ auto_trader
    /\ Len(tasks) = last.tasks_before + 1
    /\ tasks[Len(tasks)].token_price = DefaultTokenPrice
    /\ message.open
    /\ message.version = "V0"

\* the step handles a CreateEvent
CreateHandled == decoded' = decoded + 1 /\ last'.op = "CreateEvent"

\* C27: an entry of the ledger is created by the first CreateEvent of its
\* token, with virtual_sol_reserves 30,000,000,000 and
\* virtual_token_reserves 1,073,000,000,000,000; a later CreateEvent of the
\* token leaves the entry as it is, and no event removes an entry.
C27_CreatedOnceNeverRemoved ==
    [][/\ DOMAIN token_reserves \subseteq DOMAIN token_reserves'
       /\ \A m \in DOMAIN token_reserves' \ DOMAIN token_reserves :
             /\ CreateHandled
             /\ last'.mint = m
             /\ token_reserves'[m] =
                   [virtual_sol_reserves   |-> U64Dec(<<30, 0, 0, 0>>),
                    virtual_token_reserves |-> U64Dec(<<1, 73, 0, 0, 0, 0>>)]
       /\ CreateHandled =>
             /\ last'.mint \in DOMAIN token_reserves'
             /\ \A m \in DOMAIN token_reserves :
                   token_reserves'[m] = token_reserves[m]]_vars

\* a second CreateEvent of a token has left its entry, already changed by a
\* buy, as it was
C27_Witness ==
    /\ last.op = "CreateEvent"
    /\ last.mint \in DOMAIN last.before
    /\ last.before[last.mint] # InitialReserves
    /\ token_reserves = last.before

\* C28: a transaction whose account list does not hold the target is
\* ignored: its instructions are never looked at, so the ledger and the
\* tasks change only while a message that holds the target is open, and the
\* step that meets such a transaction changes neither.
C28_UntargetedIgnored ==
    [][/\ message'.open => TargetKey \in Range(message'.account_keys)
       /\ (token_reserves' # token_reserves \/ tasks' # tasks) =>
             message.open /\ TargetKey \in Range(message.account_keys)
       /\ (last'.op = "ignored" /\ last' # last) =>
             /\ TargetKey \notin Range(last'.account_keys)
             /\ token_reserves' = token_reserves
             /\ tasks' = tasks
             /\ ~message'.open
             /\ decoded' = decoded]_vars

\* a transaction that names the pump program but not the target has been
\* ignored with a token in the ledger and a task launched
C28_Witness ==
    /\ last.op = "ignored"
    /\ PumpKey \in Range(last.account_keys)
    /\ last.before # <<>>
    /\ token_reserves = last.before
    /\ tasks # <<>>
    /\ Len(tasks) = last.tasks_before
    /\ message = NoMessage

(***************************************************************************)
(* Further claims about the decoder                                        *)
(***************************************************************************)
\* the payload starts with the opcode and not with an exact discriminator
LegacyTier(opcode) ==
    /\ Len(data) >= 8
    /\ data[1] = opcode
    /\ Slice(data, 0, 8) \notin {CREATE_EVENT_DISCRIMINATOR, BUY_EVENT_DISCRIMINATOR}

\* the payload with bytes 1..7 set to zero
ZeroTail(bytes) ==
    [i \in DOMAIN bytes |-> IF i \in 2..8 THEN 0 ELSE bytes[i]]

\* the errors of the manual decode of the three strings
ManualErrors ==
    { Err("Insufficient data for name length"), Err("Insufficient data for name"),
      Err("Insufficient data for symbol length"),
      Err("Insufficient data for symbol"),
      Err("Insufficient data for URI length"), Err("Insufficient data for URI"),
      Err("invalid utf-8 sequence") }

\* C29: a payload of 8 bytes or more that starts with 24 (with 102) and not
\* with an exact discriminator is decoded by the manual logic as a create
\* (a buy), with the same result whatever bytes 1..7 are: the create has the
\* three strings that follow byte 7 and the zero creator, or one of the
\* manual errors; the buy has the two little-endian u64 of bytes 8..23, or
\* the error of a payload below 24 bytes.
C29_LegacyOpcodes ==
    Decoded =>
      /\ LegacyTier(24) =>
            /\ parsed \in ManualErrors \/ parsed.kind = "Ok"
            /\ parsed.kind = "Ok" =>
                  /\ parsed.type = "CreateEvent"
                  /\ parsed.user = PubkeyDefault
                  /\ LET fields == EncodeString(parsed.name)
                                     \o EncodeString(parsed.symbol)
                                     \o EncodeString(parsed.uri)
                     IN  /\ 8 + Len(fields) <= Len(data)
                         /\ Slice(data, 8, 8 + Len(fields)) = fields
            /\ \A overflow_checks \in OverflowChecks :
                  parsed = parse_instruction_data(ZeroTail(data), overflow_checks)
      /\ LegacyTier(102) =>
            /\ Len(data) < 24 =>
                  parsed = Err("Insufficient data for BuyTokens instruction")
            /\ Len(data) >= 24 =>
                  /\ parsed.kind = "Ok"
                  /\ parsed.type = "Buy"
                  /\ u64_to_le_bytes(parsed.amount) = Slice(data, 8, 16)
                  /\ u64_to_le_bytes(parsed.max_sol_cost) = Slice(data, 16, 24)
            /\ \A overflow_checks \in OverflowChecks :
                  parsed = parse_instruction_data(ZeroTail(data), overflow_checks)

\* a create payload with a damaged discriminator and a creator that is not
\* zero has been decoded to a create with a name and the zero creator
C29_Witness ==
    /\ Decoded
    /\ LegacyTier(24)
    /\ parsed.kind = "Ok"
    /\ parsed.name # <<>>
    /\ parsed.user = PubkeyDefault
    /\ Len(data) >= PubkeyLen
    /\ Slice(data, Len(data) - PubkeyLen, Len(data)) # PubkeyDefault

(***************************************************************************)
(* Further claims about the delayed-sell store                             *)
(***************************************************************************)
\* the step sets the index entry of the mint: only ZADD does
IndexSet(mint) ==
    /\ mint \in DOMAIN mints_to_sell'
    /\ mint \notin DOMAIN mints_to_sell \/ mints_to_sell'[mint] # mints_to_sell[mint]

\* C30: store_mint_with_amount records both structures: when it returns,
\* with Ok or with an error, a token whose index entry it has set has its
\* amount record too, holding the text of the amount of this call.
C30_BothRecorded ==
    [][\A mint \in Mints :
         IndexSet(mint) =>
            /\ mints_to_sell'[mint] = now + trader.sell_delay_ms
            /\ mint \in DOMAIN mint_amounts'
            /\ mint \in DOMAIN sched'
            /\ mint_amounts'[mint] = to_string(sched'[mint].amount)]_vars

(***************************************************************************)
(* Claims about the startup                                                *)
(***************************************************************************)
\* C31: a configuration error is fatal at startup: with SERVER_URL or
\* PRIVATE_KEY missing, or PRIVATE_KEY not the text of a key, the process
\* stops before it subscribes to the stream and before the sell poller or
\* a snipe task runs.
C31_ConfigErrorFatal ==
    (/\ startup.pc # "none"
     /\ \/ startup.env.SERVER_URL = "unset"
        \/ startup.env.PRIVATE_KEY \in {"unset", "invalid"}) =>
        /\ ~startup.subscribed
        /\ ~startup.poller
        /\ ~auto_trader

(***************************************************************************)
(* Claims about repeated and foreign events                                *)
(***************************************************************************)
\* C32: a CreateEvent of a token that has reserve state leaves the whole
\* ledger as it was: a second create, or a create after buys, does not put
\* the reserves back to their initial values.
C32_CreateIdempotent ==
    (last.op = "CreateEvent" /\ last.mint \in DOMAIN last.before) =>
        token_reserves = last.before

\* the third instruction or a later one is a CreateEvent of a token whose
\* sol reserve a buy has raised, and the raised value is still there
C32_Witness ==
    /\ last.op = "CreateEvent"
    /\ decoded >= 3
    /\ last.mint \in DOMAIN last.before
    /\ U64Lt(InitialVirtualSolReserves,
             last.before[last.mint].virtual_sol_reserves)
    /\ token_reserves[last.mint] = last.before[last.mint]

\* C33: a Buy of a token without reserve state creates none and leaves the
\* ledger exactly as it was; a Buy of token T changes the reserves of no
\* other token, and adds or removes no entry.
C33_BuyFrame ==
    last.op = "Buy" =>
        /\ DOMAIN token_reserves = DOMAIN last.before
        /\ last.mint \notin DOMAIN last.before => token_reserves = last.before
        /\ \A mint \in DOMAIN last.before \ {last.mint} :
              token_reserves[mint] = last.before[mint]

\* a Buy of a token without reserve state has been handled while the other
\* token is tracked with reserves that a buy has changed
C33_Witness ==
    /\ last.op = "Buy"
    /\ last.mint \notin DOMAIN token_reserves
    /\ \E mint \in DOMAIN token_reserves :
          /\ token_reserves[mint] # InitialReserves
          /\ token_reserves[mint] = last.before[mint]

(***************************************************************************)
(* Further claims about the store and the poller                           *)
(***************************************************************************)
\* the poller's lookup of the amount of the current mint succeeds
LookupStep == poller.pc = "lookup" /\ poller'.pc = "sell"

\* C34: the store holds at most one pending sell per token: a schedule of a
\* pending token replaces its due time and its amount together, so a
\* pending token carries the due time and the amount of its latest
\* schedule, a claim returns it once, and the amount looked up for its sell
\* is that of the latest schedule.
C34_OnePendingPerToken ==
    [][/\ \A mint \in DOMAIN mints_to_sell' \cap DOMAIN sched' :
             /\ mints_to_sell'[mint] = sched'[mint].due
             /\ mint \in DOMAIN mint_amounts'
             /\ mint_amounts'[mint] = to_string(sched'[mint].amount)
       /\ \A j, k \in DOMAIN poller'.read :
             poller'.read[j] = poller'.read[k] => j = k
       /\ (LookupStep /\ poller.mints[poller.idx] \in DOMAIN poller.claimed) =>
             poller'.amount =
                IF poller.mints[poller.idx] \in DOMAIN sched
                THEN sched[poller.mints[poller.idx]].amount
                ELSE poller.claimed[poller.mints[poller.idx]].amount]_vars

(***************************************************************************)
(* Claims about the locks                                                  *)
(***************************************************************************)
Locks == {"trader", "cache", "conn"}

\* process p holds the lock
Holds(p, lock) ==
    CASE lock = "trader" -> trader_lock = p
      [] lock = "cache" -> cache_lock = p
      [] lock = "conn" -> p \in ConnHolders

\* process p has asked for the lock and does not have it
Waits(p, lock) ==
    CASE lock = "trader" ->
            \E i \in DOMAIN tasks :
               p = TaskId(i) /\ tasks[i].pc \in {"spawned", "decided"}
      [] lock = "cache" -> calls[p].st = "waiting"
      [] lock = "conn" ->
            \/ \E i \in DOMAIN tasks : p = TaskId(i) /\ tasks[i].pc = "store"
            \/ /\ p = PollerId
               /\ poller.pc \in DOMAIN PollerLocked
               /\ poller.pc = "lookup" => calls[PollerId].st = "returned"

\* two processes each hold a lock the other waits for
CircularWait ==
    \E p, q \in Procs, held, wanted \in Locks :
        /\ p # q
        /\ held # wanted
        /\ Holds(p, held) /\ Waits(p, wanted)
        /\ Holds(q, wanted) /\ Waits(q, held)

\* C35: no deadlock among the snipe tasks and the sell poller over the
\* AutoTrader lock, the blockhash-cache lock and the connection lock: no two
\* of them ever hold a lock each while waiting for the other's, every snipe
\* task comes to its end, and the poller gets every lock it waits for.
C35_NoDeadlock ==
    /\ []~CircularWait
    /\ \A i \in 1..MaxTasks :
          (i \in DOMAIN tasks) ~>
             (i \in DOMAIN tasks /\ tasks[i].pc \in {"done", "declined"})
    /\ \A pc \in DOMAIN PollerLocked : (poller.pc = pc) ~> (poller.pc # pc)

\* a snipe task holds the AutoTrader lock and waits for the connection
\* lock, which the poller holds, while another task waits for the
\* AutoTrader lock
C35_Witness ==
    /\ \E i \in DOMAIN tasks :
          Holds(TaskId(i), "trader") /\ Waits(TaskId(i), "conn")
    /\ Holds(PollerId, "conn")
    /\ \E j \in DOMAIN tasks : Waits(TaskId(j), "trader")

FetchFails(p) ==
    /\ calls[p].st = "fetching"
    /\ calls'[p].st = "returned"
    /\ ~calls'[p].ok

\* C37: when the fetch inside get_latest_blockhash fails, the call returns
\* an error and no blockhash, the cached pair of anchor and capture time is
\* the one the call found when it took the lock, and the lock the call held
\* is free again, so that a caller waiting for it can check and fetch.
C37_FailedFetchKeepsCache ==
    [][\A p \in Procs :
          FetchFails(p) =>
             /\ calls'[p].result = NoBlockhash
             /\ cached_blockhash' = cached_blockhash
             /\ cached_blockhash' = calls[p].seen
             /\ cache_lock = p
             /\ cache_lock' = NoProc
             /\ \A q \in Procs :
                   calls'[q].st = "waiting" =>
                      /\ ~CacheIsFresh(cached_blockhash', now')
                      /\ calls[q] = calls'[q]]_vars

\* C37 witness: a fetch failed on an expired anchor, the anchor was still in
\* the cache when the next caller took the lock, and that caller fetched.
C37_Witness ==
    \E p, q \in Procs :
        /\ ServedAfter(p, q)
        /\ ~calls[p].ok
        /\ calls[p].seen.some
        /\ calls[q].seen = calls[p].seen
        /\ calls[q].ok /\ calls[q].fetches = 1

(***************************************************************************)
(* Claims about the divisor of the price                                   *)
(***************************************************************************)
\* every tracked token has a token reserve above 0
DivisorPositive ==
    \A m \in DOMAIN token_reserves :
        token_reserves[m].virtual_token_reserves # U64Zero

\* no snipe task carries an infinite price
NoInfinitePrice ==
    \A i \in DOMAIN tasks :
        "token_price" \in DOMAIN tasks[i] =>
            tasks[i].token_price.class # "infinite"

\* no task has gone past snipe_token's computation with a token amount of 0
NoZeroAmountBuy ==
    \A i \in DOMAIN tasks :
        "token_amount" \in DOMAIN tasks[i] => tasks[i].token_amount # U64Zero

\* C38: the price division never has a zero divisor: virtual_token_reserves
\* is above 0 for every tracked token in every reachable state, no snipe
\* task is launched with an infinite price, and no buy for a token amount
\* of 0 is submitted.
C38_DivisorNeverZero ==
    /\ DivisorPositive
    /\ NoInfinitePrice
    /\ NoZeroAmountBuy

(***************************************************************************)
(* Claims about a failed claim                                             *)
(***************************************************************************)
\* the step in which get_and_remove_mints_to_sell returns an error: the
\* range query or one of the removals failed
ClaimFails ==
    /\ poller.pc \in {"claim", "remove"}
    /\ poller'.pc = "sleep"
    /\ faults' = faults + 1

\* C39: a claim that fails leaves the durable store unchanged: when
\* get_and_remove_mints_to_sell returns an error no entry has been removed
\* from the due-time index (so a later successful claim returns every due
\* token).
C39_FailedClaimKeepsIndex ==
    [][ClaimFails => mints_to_sell' = mints_to_sell]_vars

====
